---------------------------- MODULE Spec2Model ----------------------------
(***************************************************************************)
(* django-toosimple-q: the execution store (TaskExec, ScheduleExec), the   *)
(* enqueue operation of a Task, the retry machinery and the worker's tick  *)
(* loop (management/commands/worker.py), as a state machine.               *)
(*                                                                         *)
(* Time is a natural number of seconds.  A nullable column holds None.     *)
(* TaskExec rows are a sequence: a row's id is its index, and a query's    *)
(* .first() without ordering takes the lowest id.                          *)
(***************************************************************************)
EXTENDS Integers, Sequences, FiniteSets, TLC

VARIABLES
    now,                \* the wall clock, django.utils.timezone.now()
    tasks_registry,     \* name -> Task definition
    schedules_registry, \* name -> Schedule definition
    rows,               \* the TaskExec table
    schedule_execs,     \* the ScheduleExec table
    locked,             \* ids of the TaskExec rows under a row lock
    pc,                 \* each worker's position in inner_run / do_loop
    opts,               \* each worker's command line options
    command,            \* each worker's other attributes and locals
    cur,                \* each worker's self.cur_task_exec (in-memory copy)
    did_something,      \* each worker's did_something of the running tick
    last_run,           \* each worker's last_run of the running tick
    worker_status,          \* each worker's WorkerStatus row
    ret,                \* what the last call of Task.enqueue returned
    call,               \* the arguments of the last call of Task.enqueue
    procs               \* history: per row, the workers that made it PROCESSING

vars == <<now, tasks_registry, schedules_registry, rows, schedule_execs,
          locked, pc, opts, command, cur, did_something, last_run,
          worker_status, ret, call, procs>>

---------------------------------------------------------------------------
(* Bounds of the model *)

NumWorkers == 2      \* worker processes that can be started
MaxTime == 4         \* the clock is advanced second by second up to here
StartTime == 2       \* the clock's value when the model starts
MaxRows == 3         \* rows callers may have put in the TaskExec table
MaxRowsConc == 2     \* the same, with several workers
MaxTimeConc == 3     \* the clock's last value with several workers
MaxTimeEnq == 3      \* the clock's last value in the enqueue scenario
MaxTimeSignal == 5   \* the clock's last value when workers are signalled
MaxRetries == 3      \* the most retries a task is registered with
MaxChain == 5        \* rows of the TaskExec table in the retry scenario
MaxSchedTime == 6    \* the clock's last value in the schedule scenario
MaxTimeCatchUp == 5  \* the clock's last value when boundaries are caught up
MaxRowsForce == 1    \* rows that a forced run leaves, with two workers
Timeout == 2         \* the --timeout of the workers, in seconds

---------------------------------------------------------------------------
(* Values *)

None == -1           \* Python's None / SQL NULL
False == 0           \* the False that Task.enqueue returns (a row id otherwise)

Workers == 1..NumWorkers

States == {"SLEEPING", "QUEUED", "PROCESSING", "SUCCEEDED", "INTERRUPTED",
           "FAILED", "INVALID"}

Min2(a, b) == IF a <= b THEN a ELSE b

MinOf(S) == CHOOSE x \in S : \A y \in S : x <= y

\* Task.__init__: a task definition; callable is "ok" (returns) or "raise"
Task(queue, priority, unique, retries, retry_delay, callable) ==
    [queue |-> queue, priority |-> priority, unique |-> unique,
     retries |-> retries, retry_delay |-> retry_delay, callable |-> callable]

\* Schedule.__init__: cron is the period of the cron expression, whose
\* boundaries are the multiples of the period
Schedule(queue, cron, args, catch_up, run_on_creation, datetime_kwarg) ==
    [queue |-> queue, cron |-> cron, args |-> args, catch_up |-> catch_up,
     run_on_creation |-> run_on_creation, datetime_kwarg |-> datetime_kwarg]

\* TaskExec.objects.create(...): the model's field defaults
TaskExec(task_name, args, kwargs, retries, retry_delay, state, due, tnow) ==
    [task_name |-> task_name, args |-> args, kwargs |-> kwargs,
     retries |-> retries, retry_delay |-> retry_delay,
     due |-> due, created |-> tnow, started |-> None, finished |-> None,
     state |-> state, result |-> None, error |-> None,
     replaced_by |-> None, worker |-> None]

\* ScheduleExec.objects.create(name=, last_due=)
ScheduleExec(name, last_due) ==
    [name |-> name, last_due |-> last_due, last_task |-> None,
     state |-> "ACTIVE"]

Ids(rs) == 1..Len(rs)

\* the history grows with the table
Pad(p, n) == [i \in 1..n |-> IF i <= Len(p) THEN p[i] ELSE <<>>]

---------------------------------------------------------------------------
(* Task.enqueue *)

\* task.py:48-50, the rows of the same call
ExistingTasks(rs, name, args, kwargs) ==
    {i \in Ids(rs) : /\ rs[i].task_name = name
                     /\ rs[i].args = args
                     /\ rs[i].kwargs = kwargs}

\* a due that never makes the new row sleep
EnqueueStateAlwaysQueued(due) == "QUEUED"

\* task.py:75
EnqueueState(due) == IF due # None THEN "SLEEPING" ELSE "QUEUED"

\* a task that is never taken as unique
EnqueueUniqueOff(t) == FALSE

\* task.py:47
EnqueueUnique(t) == t.unique

\* a due that is replaced even by a later one
EnqueueShrinkPostpones(old, due_datetime) == due_datetime

\* task.py:65-67: the due of the sleeping row after an enqueue with a due
EnqueueShrink(old, due_datetime) ==
    IF old > due_datetime THEN Min2(old, due_datetime) ELSE old

\* a promotion that takes the retries of the task again
EnqueuePromoteResets(r, t, due_datetime) ==
    [r EXCEPT !.due = due_datetime, !.state = "QUEUED",
              !.retries = t.retries, !.retry_delay = t.retry_delay]

\* task.py:60-64: the sleeping row after an enqueue without a due
EnqueuePromote(r, t, due_datetime) ==
    [r EXCEPT !.due = due_datetime, !.state = "QUEUED"]

\* task.py:37-79: the table and the returned value after
\* t.enqueue(*args, due=due, **kwargs) at time tnow, t the task called name
Enqueue(rs, name, args, kwargs, due, tnow) ==
    LET t == tasks_registry[name]
        due_datetime == IF due = None THEN tnow ELSE due
        existing == ExistingTasks(rs, name, args, kwargs)
        queued == {i \in existing : rs[i].state = "QUEUED"}
        sleeping == {i \in existing : rs[i].state = "SLEEPING"}
        s == MinOf(sleeping)
    IN  IF EnqueueUnique(t) /\ queued # {}
        THEN [rows |-> rs, ret |-> False]
        ELSE IF EnqueueUnique(t) /\ sleeping # {}
        THEN [rows |-> [rs EXCEPT ![s] =
                          IF due = None
                          THEN EnqueuePromote(rs[s], t, due_datetime)
                          ELSE [rs[s] EXCEPT !.due =
                                  EnqueueShrink(rs[s].due, due_datetime)]],
              ret |-> False]
        ELSE [rows |-> Append(rs, TaskExec(name, args, kwargs, t.retries,
                                           t.retry_delay, EnqueueState(due),
                                           due_datetime, tnow)),
              ret |-> Len(rs) + 1]

---------------------------------------------------------------------------
(* TaskExec.execute and TaskExec.create_replacement *)

\* retries that stop at 0 whatever they were
ReplacementRetriesExhausts(retries, is_retry) ==
    IF is_retry THEN (IF retries > 0 THEN retries - 1 ELSE 0) ELSE retries

\* models.py:139-146: the retries of the replacement
ReplacementRetries(retries, is_retry) ==
    IF is_retry THEN (IF retries > 0 THEN retries - 1 ELSE -1) ELSE retries

\* a retry_delay that does not grow
ReplacementDelayConstant(retry_delay, is_retry) == retry_delay

\* models.py:139-146: the retry_delay of the replacement
ReplacementDelay(retry_delay, is_retry) ==
    IF is_retry THEN retry_delay * 2 ELSE retry_delay

\* a replacement that is created QUEUED
CreateReplacementQueued(r, is_retry, tnow) ==
    TaskExec(r.task_name, r.args, r.kwargs,
             ReplacementRetries(r.retries, is_retry),
             ReplacementDelay(r.retry_delay, is_retry),
             "QUEUED", tnow + r.retry_delay, tnow)

\* models.py:148-156: the row that replaces row r
CreateReplacement(r, is_retry, tnow) ==
    TaskExec(r.task_name, r.args, r.kwargs,
             ReplacementRetries(r.retries, is_retry),
             ReplacementDelay(r.retry_delay, is_retry),
             "SLEEPING", tnow + r.retry_delay, tnow)

\* a retry whatever the retries left
NeedsRetryAlways(r) == TRUE

\* models.py:128
NeedsRetry(r) == r.retries # 0

\* models.py:117-122: whether the callable of row r raises
Raises(r) == tasks_registry[r.task_name].callable = "raise"

\* an execute() that lets the exception of the callable through: the row is
\* not saved
ExecuteUnrecorded(rs, id, r, tnow) ==
    IF Raises(r) THEN rs
    ELSE [rs EXCEPT ![id] = [r EXCEPT !.state = "SUCCEEDED", !.result = 1,
                                      !.finished = tnow]]

\* models.py:114-134: the in-memory row r of id after r.execute(), and the
\* table with the replacement it created (create_replacement saves r too)
Execute(rs, id, r, tnow) ==
    IF Raises(r)
    THEN LET failed == [r EXCEPT !.state = "FAILED", !.error = 1]
         IN  IF NeedsRetry(r)
             THEN LET self == [failed EXCEPT !.replaced_by = Len(rs) + 1,
                                             !.finished = tnow]
                  IN  Append([rs EXCEPT ![id] = self],
                             CreateReplacement(r, TRUE, tnow))
             ELSE [rs EXCEPT ![id] = [failed EXCEPT !.finished = tnow]]
    ELSE [rs EXCEPT ![id] = [r EXCEPT !.state = "SUCCEEDED", !.result = 1,
                                      !.finished = tnow]]

---------------------------------------------------------------------------
(* Registry.for_queue, cron boundaries, ScheduleExec.next_dues / execute *)

\* the names of the definitions whose queue passes the worker's filter
ForQueue(registry, queues, excluded_queues) ==
    {n \in DOMAIN registry :
        IF queues # {} THEN registry[n].queue \in queues
        ELSE IF excluded_queues # {} THEN registry[n].queue \notin excluded_queues
        ELSE TRUE}

\* a cron boundary: the expression of period cron matches second t
CronMatch(cron, t) == t % cron = 0

\* the last boundary up to tnow, tnow included
GetPrevInclusive(cron, tnow) ==
    CHOOSE t \in (tnow - cron + 1)..tnow : CronMatch(cron, t)

\* croniter(cron, tnow).get_prev(datetime): the last boundary before tnow
GetPrev(cron, tnow) ==
    CHOOSE t \in (tnow - cron)..(tnow - 1) : CronMatch(cron, t)

RECURSIVE Ascending(_)
\* a finite set of times as the ascending list
Ascending(S) ==
    IF S = {} THEN <<>> ELSE <<MinOf(S)>> \o Ascending(S \ {MinOf(S)})

\* croniter_range(start, stop, cron, exclude_ends=True)
CroniterRange(start, stop, cron) ==
    Ascending({t \in (start + 1)..(stop - 1) : CronMatch(cron, t)})

\* all the dues kept
KeepLastOff(dues) == dues

\* models.py:214, dues[-1:]
KeepLast(dues) == IF dues = <<>> THEN <<>> ELSE <<dues[Len(dues)]>>

\* models.py:202-216
NextDues(se, tnow) ==
    LET schedule == schedules_registry[se.name]
    IN  IF se.last_due = None
        THEN <<GetPrev(schedule.cron, tnow)>>
        ELSE LET dues == CroniterRange(se.last_due, tnow, schedule.cron)
             IN  IF ~schedule.catch_up THEN KeepLast(dues) ELSE dues

RECURSIVE ScheduleEnqueue(_, _, _, _, _)
\* schedule.py:78-97: one enqueue per due, the due as the datetime kwarg;
\* gives the table and the last row created (None when none was)
ScheduleEnqueue(rs, name, dues, last_task, tnow) ==
    IF dues = <<>> THEN [rows |-> rs, last_task |-> last_task]
    ELSE LET next_due == Head(dues)
             schedule == schedules_registry[name]
             dt_kwarg == IF schedule.datetime_kwarg THEN next_due ELSE None
             t == Enqueue(rs, name, schedule.args, dt_kwarg, next_due, tnow)
         IN  ScheduleEnqueue(t.rows, name, Tail(dues),
                             IF t.ret # False THEN t.ret ELSE last_task, tnow)

\* models.py:218-229: the table, the saved ScheduleExec and did_something
ScheduleExecExecute(rs, se, tnow) ==
    LET next_dues == NextDues(se, tnow)
        done == ScheduleEnqueue(rs, se.name, next_dues, se.last_task, tnow)
    IN  IF next_dues # <<>>
        THEN [rows |-> done.rows,
              se |-> [se EXCEPT !.last_due = next_dues[Len(next_dues)],
                                !.last_task = done.last_task,
                                !.state = "ACTIVE"],
              did |-> TRUE]
        ELSE [rows |-> rs, se |-> [se EXCEPT !.state = "ACTIVE"],
              did |-> FALSE]

---------------------------------------------------------------------------
(* The worker: inner_run and the steps of do_loop *)

NoCur == [id |-> None]

\* worker.py:101-103 and the locals of do_loop: no exit was requested, no
\* exception is to be simulated, nothing was read yet; the process has not
\* returned
NewCommand ==
    [exit_requested |-> FALSE, simulate_exception |-> FALSE,
     existing_schedules_names |-> {}, selected |-> {}, snapshot |-> <<>>,
     returncode |-> None]

EmptyLog == 0        \* exit_log = ""
Traceback == 1       \* exit_log = format_exc()

\* WorkerStatus.ExitCodes
STOPPED == 0
TERMINATED == 77
CRASHED == 99

\* worker.py:297-300
RelevantSchedules(w) ==
    ForQueue(schedules_registry, opts[w].queues, opts[w].excluded_queues)

\* every task, whatever its queue
RelevantTasksAll(w) == DOMAIN tasks_registry

\* worker.py:309-312
RelevantTasks(w) ==
    ForQueue(tasks_registry, opts[w].queues, opts[w].excluded_queues)

\* the lower priority first
OrderKeyAscendingPriority(r) ==
    <<tasks_registry[r.task_name].priority, r.due, r.created>>

\* worker.py:318-322, 328: order_by(order_by_priority, "due", "created")
OrderKey(r) == <<-tasks_registry[r.task_name].priority, r.due, r.created>>

\* the ORDER BY of SQL over three columns
Before(k1, k2) ==
    \/ k1[1] < k2[1]
    \/ k1[1] = k2[1] /\ k1[2] < k2[2]
    \/ k1[1] = k2[1] /\ k1[2] = k2[2] /\ k1[3] < k2[3]

\* a select that does not skip the locked rows
SkipLockedOff(ids) == ids

\* worker.py:329: select_for_update(skip_locked=True)
SkipLocked(ids) == ids \ locked

\* a queryset that takes the PROCESSING rows too
DueTasksProcessing(w) ==
    SkipLocked({i \in Ids(rows) :
                  /\ rows[i].state \in {"QUEUED", "PROCESSING"}
                  /\ rows[i].task_name \in RelevantTasks(w)})

\* worker.py:326-329: the rows of the queryset
DueTasks(w) ==
    SkipLocked({i \in Ids(rows) : /\ rows[i].state = "QUEUED"
                                  /\ rows[i].task_name \in RelevantTasks(w)})

\* worker.py:240: .first() of the ordered queryset; rows that the ORDER BY
\* does not tell apart come in any order
FirstDue(w) ==
    {i \in DueTasks(w) :
        \A j \in DueTasks(w) : ~Before(OrderKey(rows[j]), OrderKey(rows[i]))}

\* worker.py:128-141: WorkerStatus.objects.update_or_create(label=...)
Start(w) ==
    /\ pc[w] = "off"
    /\ worker_status' = [worker_status EXCEPT ![w] =
            IF @.exists THEN [@ EXCEPT !.started = now, !.stopped = None,
                                       !.exit_code = None, !.exit_log = None,
                                       !.timeout = opts[w].timeout]
            ELSE [exists |-> TRUE, started |-> now, stopped |-> None,
                  exit_code |-> None, exit_log |-> None, last_tick |-> now,
                  timeout |-> opts[w].timeout]]
    /\ pc' = [pc EXCEPT ![w] = "tick"]
    /\ UNCHANGED <<now, tasks_registry, schedules_registry, rows,
                   schedule_execs, locked, opts, command, cur, did_something,
                   last_run, ret, call, procs>>

\* a sweep that deletes the rows of the schedules that are not registered
OrphanSchedulesDeleted(ses) ==
    SelectSeq(ses, LAMBDA se : se.name \in DOMAIN schedules_registry)

\* worker.py:194-201: the rows of the schedules that are not registered
\* become INVALID
OrphanSchedules(ses) ==
    [k \in 1..Len(ses) |->
        IF /\ ses[k].state # "INVALID"
           /\ ses[k].name \notin DOMAIN schedules_registry
        THEN [ses[k] EXCEPT !.state = "INVALID"]
        ELSE ses[k]]

\* worker.py:203-210: the rows of the tasks that are not registered become
\* INVALID, whatever their state
OrphanTasks(rs) ==
    [i \in Ids(rs) |->
        IF /\ rs[i].state # "INVALID"
           /\ rs[i].task_name \notin DOMAIN tasks_registry
        THEN [rs[i] EXCEPT !.state = "INVALID"]
        ELSE rs[i]]

\* worker.py:186-210: heartbeat, then the orphaned schedules and tasks
TickBegin(w) ==
    /\ pc[w] = "tick"
    /\ last_run' = [last_run EXCEPT ![w] = now]
    /\ did_something' = [did_something EXCEPT ![w] = FALSE]
    /\ worker_status' = [worker_status EXCEPT ![w].last_tick = now]
    /\ schedule_execs' = OrphanSchedules(schedule_execs)
    /\ rows' = OrphanTasks(rows)
    /\ pc' = [pc EXCEPT ![w] = "schedules"]
    /\ UNCHANGED <<now, tasks_registry, schedules_registry, locked, opts, command,
                   cur, ret, call, procs>>

RECURSIVE CreateMissing(_, _, _)
\* worker.py:213-226: one ScheduleExec per relevant schedule without one
CreateMissing(ses, names, tnow) ==
    IF names = {} THEN ses
    ELSE LET n == CHOOSE x \in names : TRUE
             existing_schedules_names == {ses[k].name : k \in 1..Len(ses)}
             last_due == IF schedules_registry[n].run_on_creation
                         THEN None ELSE tnow
         IN  CreateMissing(IF n \in existing_schedules_names THEN ses
                           ELSE Append(ses, ScheduleExec(n, last_due)),
                           names \ {n}, tnow)

\* worker.py:212-226
CreateMissingSchedules(w) ==
    /\ pc[w] = "schedules"
    /\ schedule_execs' = CreateMissing(schedule_execs, RelevantSchedules(w), now)
    /\ pc' = [pc EXCEPT ![w] = "execute_schedules"]
    /\ UNCHANGED <<now, tasks_registry, schedules_registry, rows, locked,
                   opts, command, cur, did_something, last_run, worker_status, ret, call,
                   procs>>

RECURSIVE ExecuteAll(_, _, _, _, _, _)
\* worker.py:229-231: schedule_exec.execute() for each row of the queryset,
\* from row k on
ExecuteAll(rs, ses, k, names, did, tnow) ==
    IF k > Len(ses) THEN [rows |-> rs, ses |-> ses, did |-> did]
    ELSE IF ses[k].name \notin names
    THEN ExecuteAll(rs, ses, k + 1, names, did, tnow)
    ELSE LET e == ScheduleExecExecute(rs, ses[k], tnow)
         IN  ExecuteAll(e.rows, [ses EXCEPT ![k] = e.se], k + 1, names,
                        did \/ e.did, tnow)

\* worker.py:228-231, in one transaction
ExecuteSchedules(w) ==
    /\ pc[w] = "execute_schedules"
    /\ LET e == ExecuteAll(rows, schedule_execs, 1, RelevantSchedules(w),
                           did_something[w], now)
       IN  /\ Len(e.rows) <= MaxChain
           /\ rows' = e.rows
           /\ schedule_execs' = e.ses
           /\ did_something' = [did_something EXCEPT ![w] = e.did]
           /\ procs' = Pad(procs, Len(e.rows))
    /\ pc' = [pc EXCEPT ![w] = "wake"]
    /\ UNCHANGED <<now, tasks_registry, schedules_registry, locked, opts, command,
                   cur, last_run, worker_status, ret, call>>

\* every sleeping row, whatever its due
WakeDueAll(r, tnow) == r.state = "SLEEPING"

\* worker.py:234-235: the rows to wake up
WakeDue(r, tnow) == r.state = "SLEEPING" /\ r.due <= tnow

\* worker.py:233-236
WakeUp(w) ==
    /\ pc[w] = "wake"
    /\ rows' = [i \in Ids(rows) |->
                  IF WakeDue(rows[i], now)
                  THEN [rows[i] EXCEPT !.state = "QUEUED"] ELSE rows[i]]
    /\ pc' = [pc EXCEPT ![w] = "lock"]
    /\ UNCHANGED <<now, tasks_registry, schedules_registry, schedule_execs,
                   locked, opts, command, cur, did_something, last_run, worker_status,
                   ret, call, procs>>

\* worker.py:239-241: the row the transaction selects and locks, if any
LockTask(w) ==
    /\ pc[w] = "lock"
    /\ IF FirstDue(w) = {}
       THEN /\ cur' = [cur EXCEPT ![w] = NoCur]
            /\ pc' = [pc EXCEPT ![w] = "end"]
            /\ UNCHANGED locked
       ELSE \E i \in FirstDue(w) :
            /\ cur' = [cur EXCEPT ![w] = [id |-> i, row |-> rows[i]]]
            /\ locked' = locked \cup {i}
            /\ pc' = [pc EXCEPT ![w] = "mark"]
    /\ UNCHANGED <<now, tasks_registry, schedules_registry, rows,
                   schedule_execs, opts, command, did_something, last_run, worker_status,
                   ret, call, procs>>

\* worker.py:243-246: the save inside the transaction
MarkProcessing(w) ==
    /\ pc[w] = "mark"
    /\ cur' = [cur EXCEPT ![w].row =
                 [@ EXCEPT !.started = now, !.state = "PROCESSING",
                           !.worker = w]]
    /\ pc' = [pc EXCEPT ![w] = "commit"]
    /\ UNCHANGED <<now, tasks_registry, schedules_registry, rows,
                   schedule_execs, locked, opts, command, did_something, last_run,
                   worker_status, ret, call, procs>>

\* a commit that keeps the row locked while the task runs
CommitKeepsLock(w) ==
    /\ pc[w] = "commit"
    /\ rows' = [rows EXCEPT ![cur[w].id] = cur[w].row]
    /\ procs' = [procs EXCEPT ![cur[w].id] = Append(@, w)]
    /\ pc' = [pc EXCEPT ![w] = "run"]
    /\ UNCHANGED <<now, tasks_registry, schedules_registry, schedule_execs,
                   locked, opts, command, cur, did_something, last_run,
                   worker_status, ret, call>>

\* worker.py:239: leaving transaction.atomic() commits and unlocks the row
Commit(w) ==
    /\ pc[w] = "commit"
    /\ rows' = [rows EXCEPT ![cur[w].id] = cur[w].row]
    /\ locked' = locked \ {cur[w].id}
    /\ procs' = [procs EXCEPT ![cur[w].id] = Append(@, w)]
    /\ pc' = [pc EXCEPT ![w] = "run"]
    /\ UNCHANGED <<now, tasks_registry, schedules_registry, schedule_execs,
                   opts, command, cur, did_something, last_run, worker_status, ret, call>>

\* a tick that goes back to the selection while rows are due
RunTaskDrains(w) ==
    /\ pc[w] = "run"
    /\ LET rs == Execute(rows, cur[w].id, cur[w].row, now)
       IN  /\ Len(rs) <= MaxChain
           /\ rows' = rs
           /\ procs' = Pad(procs, Len(rs))
    /\ did_something' = [did_something EXCEPT ![w] = TRUE]
    /\ cur' = [cur EXCEPT ![w] = NoCur]
    /\ pc' = [pc EXCEPT ![w] = IF DueTasks(w) # {} THEN "lock" ELSE "end"]
    /\ UNCHANGED <<now, tasks_registry, schedules_registry, schedule_execs,
                   locked, opts, command, last_run, worker_status, ret, call>>

\* worker.py:249-253: the callable runs and the row is saved
RunTask(w) ==
    /\ pc[w] = "run"
    /\ LET rs == Execute(rows, cur[w].id, cur[w].row, now)
       IN  /\ Len(rs) <= MaxChain
           /\ rows' = rs
           /\ procs' = Pad(procs, Len(rs))
    /\ did_something' = [did_something EXCEPT ![w] = TRUE]
    /\ cur' = [cur EXCEPT ![w] = NoCur]
    /\ pc' = [pc EXCEPT ![w] = "end"]
    /\ UNCHANGED <<now, tasks_registry, schedules_registry, schedule_execs,
                   locked, opts, command, last_run, worker_status, ret, call>>

\* a loop that --once leaves only after a tick that did nothing
TickEndOnceWhenIdle(w) ==
    /\ pc[w] = "end"
    /\ pc' = [pc EXCEPT ![w] =
                IF (opts[w].once \/ opts[w].until_done) /\ ~did_something[w]
                THEN "stop"
                ELSE IF command[w].exit_requested THEN "stop"
                ELSE IF command[w].simulate_exception THEN "crash"
                ELSE IF ~did_something[w] THEN "wait"
                ELSE "tick"]
    /\ UNCHANGED <<now, tasks_registry, schedules_registry, rows,
                   schedule_execs, locked, opts, command, cur, did_something,
                   last_run, worker_status, ret, call, procs>>

\* worker.py:255-277: whether the loop goes on, and the wait for the next tick
TickEnd(w) ==
    /\ pc[w] = "end"
    /\ pc' = [pc EXCEPT ![w] =
                IF opts[w].once THEN "stop"
                ELSE IF opts[w].until_done /\ ~did_something[w] THEN "stop"
                ELSE IF command[w].exit_requested THEN "stop"
                ELSE IF command[w].simulate_exception THEN "crash"
                ELSE IF ~did_something[w] THEN "wait"
                ELSE "tick"]
    /\ UNCHANGED <<now, tasks_registry, schedules_registry, rows,
                   schedule_execs, locked, opts, command, cur, did_something,
                   last_run, worker_status, ret, call, procs>>

\* a wait that a request to exit does not end
WaitSleeps(w) ==
    /\ pc[w] = "wait"
    /\ now >= last_run[w] + opts[w].tick_duration
    /\ pc' = [pc EXCEPT ![w] = "tick"]
    /\ UNCHANGED <<now, tasks_registry, schedules_registry, rows,
                   schedule_execs, locked, opts, command, cur, did_something,
                   last_run, worker_status, ret, call, procs>>

\* worker.py:273-275
Wait(w) ==
    /\ pc[w] = "wait"
    /\ command[w].exit_requested
          \/ now >= last_run[w] + opts[w].tick_duration
    /\ pc' = [pc EXCEPT ![w] = "tick"]
    /\ UNCHANGED <<now, tasks_registry, schedules_registry, rows,
                   schedule_execs, locked, opts, command, cur, did_something,
                   last_run, worker_status, ret, call, procs>>

\* an exit that does not save the stop time
ExitUnsaved(w, exit_code, exit_log) ==
    /\ worker_status' = [worker_status EXCEPT ![w] =
                           [@ EXCEPT !.exit_code = exit_code,
                                     !.exit_log = exit_log]]
    /\ command' = [command EXCEPT ![w].returncode = exit_code]
    /\ pc' = [pc EXCEPT ![w] = "exited"]

\* worker.py:171-176: the status row is saved with the exit code, the log
\* and the stop time, and the process returns the exit code
Exit(w, exit_code, exit_log) ==
    /\ worker_status' = [worker_status EXCEPT ![w] =
                           [@ EXCEPT !.exit_code = exit_code,
                                     !.exit_log = exit_log,
                                     !.stopped = now]]
    /\ command' = [command EXCEPT ![w].returncode = exit_code]
    /\ pc' = [pc EXCEPT ![w] = "exited"]

\* worker.py:150-151, 171-176: the loop returned
Stop(w) ==
    /\ pc[w] = "stop"
    /\ Exit(w, STOPPED, EmptyLog)
    /\ UNCHANGED <<now, tasks_registry, schedules_registry, rows,
                   schedule_execs, locked, opts, cur, did_something,
                   last_run, ret, call, procs>>

\* worker.py:250-251, models.py:114-116: execute() is entered
EnterExecute(w) ==
    /\ pc[w] = "run"
    /\ did_something' = [did_something EXCEPT ![w] = TRUE]
    /\ pc' = [pc EXCEPT ![w] = "callable"]
    /\ UNCHANGED <<now, tasks_registry, schedules_registry, rows,
                   schedule_execs, locked, opts, command, cur, last_run,
                   worker_status, ret, call, procs>>

\* models.py:119-129: the callable returns or raises; the in-memory row has
\* the result, or the error and the replacement that create_replacement
\* saves with it
RunCallable(w) ==
    /\ pc[w] = "callable"
    /\ LET id == cur[w].id
           r == cur[w].row
       IN  IF Raises(r)
           THEN LET failed == [r EXCEPT !.state = "FAILED", !.error = 1]
                    self == [failed EXCEPT !.replaced_by = Len(rows) + 1]
                IN  IF NeedsRetry(r)
                    THEN /\ rows' = Append([rows EXCEPT ![id] = self],
                                           CreateReplacement(r, TRUE, now))
                         /\ cur' = [cur EXCEPT ![w].row = self]
                         /\ procs' = Pad(procs, Len(rows) + 1)
                    ELSE /\ cur' = [cur EXCEPT ![w].row = failed]
                         /\ UNCHANGED <<rows, procs>>
           ELSE /\ cur' = [cur EXCEPT ![w].row =
                              [r EXCEPT !.state = "SUCCEEDED", !.result = 1]]
                /\ UNCHANGED <<rows, procs>>
    /\ pc' = [pc EXCEPT ![w] = "finish"]
    /\ UNCHANGED <<now, tasks_registry, schedules_registry, schedule_execs,
                   locked, opts, command, did_something, last_run,
                   worker_status, ret, call>>

\* models.py:130-134: the finally clause of execute()
SaveTask(w) ==
    /\ pc[w] = "finish"
    /\ LET r == [cur[w].row EXCEPT !.finished = now]
       IN  /\ rows' = [rows EXCEPT ![cur[w].id] = r]
           /\ cur' = [cur EXCEPT ![w].row = r]
    /\ pc' = [pc EXCEPT ![w] = "clear"]
    /\ UNCHANGED <<now, tasks_registry, schedules_registry, schedule_execs,
                   locked, opts, command, did_something, last_run,
                   worker_status, ret, call, procs>>

\* worker.py:253
ClearTask(w) ==
    /\ pc[w] = "clear"
    /\ cur' = [cur EXCEPT ![w] = NoCur]
    /\ pc' = [pc EXCEPT ![w] = "end"]
    /\ UNCHANGED <<now, tasks_registry, schedules_registry, rows,
                   schedule_execs, locked, opts, command, did_something,
                   last_run, worker_status, ret, call, procs>>

\* the positions of a worker inside do_loop, where a signal finds it
LoopPcs == {"tick", "schedules", "execute_schedules", "wake", "lock", "mark",
            "commit", "run", "callable", "finish", "clear", "end", "wait"}

\* worker.py:153-163, 171-176: a KeyboardInterrupt leaves the loop. Inside
\* execute() its finally clause saves the row first; inside the transaction
\* the lock is released; the row the worker holds is saved INTERRUPTED and
\* replaced
Interrupted(w) ==
    /\ pc[w] \in LoopPcs
    /\ IF cur[w].id = None
       THEN UNCHANGED <<rows, procs>>
       ELSE LET id == cur[w].id
                r == IF pc[w] \in {"callable", "finish"}
                     THEN [cur[w].row EXCEPT !.finished = now]
                     ELSE cur[w].row
            IN  /\ rows' = Append(
                      [rows EXCEPT ![id] =
                          [r EXCEPT !.state = "INTERRUPTED",
                                    !.replaced_by = Len(rows) + 1]],
                      CreateReplacement(r, FALSE, now))
                /\ procs' = Pad(procs, Len(rows) + 1)
    /\ locked' = locked \ {cur[w].id}
    /\ cur' = [cur EXCEPT ![w] = NoCur]
    /\ Exit(w, TERMINATED, Traceback)
    /\ UNCHANGED <<now, tasks_registry, schedules_registry, schedule_execs,
                   opts, did_something, last_run, ret, call>>

\* models.py:115-133: a KeyboardInterrupt inside execute() before stdout is
\* bound: the finally clause raises UnboundLocalError at stdout.getvalue(),
\* before the save, and this exception leaves the loop
InterruptedUnbound(w) ==
    /\ pc[w] = "run"
    /\ cur' = [cur EXCEPT ![w].row.finished = now]
    /\ pc' = [pc EXCEPT ![w] = "crash"]
    /\ UNCHANGED <<now, tasks_registry, schedules_registry, rows,
                   schedule_execs, locked, opts, command, did_something,
                   last_run, worker_status, ret, call, procs>>

\* worker.py:78, 290-292: raise KeyboardInterrupt()
RaiseKeyboardInterrupt(w) == Interrupted(w) \/ InterruptedUnbound(w)

\* worker.py:78: SIGTERM
Sigterm(w) == RaiseKeyboardInterrupt(w)

\* a first SIGINT that ends the worker as a second one does
SigintForces(w) == RaiseKeyboardInterrupt(w)

\* worker.py:76, 286-295: SIGINT
Sigint(w) ==
    IF command[w].exit_requested
    THEN RaiseKeyboardInterrupt(w)
    ELSE /\ pc[w] \in LoopPcs
         /\ command' = [command EXCEPT ![w].exit_requested = TRUE]
         /\ UNCHANGED <<now, tasks_registry, schedules_registry, rows,
                        schedule_execs, locked, pc, opts, cur, did_something,
                        last_run, worker_status, ret, call, procs>>

\* worker.py:80, 281-284: SIGUSR1
Sigusr1(w) ==
    /\ pc[w] \in LoopPcs
    /\ command' = [command EXCEPT ![w].simulate_exception = TRUE]
    /\ UNCHANGED <<now, tasks_registry, schedules_registry, rows,
                   schedule_execs, locked, pc, opts, cur, did_something,
                   last_run, worker_status, ret, call, procs>>

\* tests_worker.py:167: SIGKILL; no code of the worker runs, the database
\* rolls the open transaction back
Sigkill(w) ==
    /\ pc[w] \in LoopPcs
    /\ locked' = locked \ {cur[w].id}
    /\ pc' = [pc EXCEPT ![w] = "killed"]
    /\ UNCHANGED <<now, tasks_registry, schedules_registry, rows,
                   schedule_execs, opts, command, cur, did_something,
                   last_run, worker_status, ret, call, procs>>

\* worker.py:165-176: an exception other than KeyboardInterrupt and
\* SystemExit left the loop
Crash(w) ==
    /\ pc[w] = "crash"
    /\ Exit(w, CRASHED, Traceback)
    /\ UNCHANGED <<now, tasks_registry, schedules_registry, rows,
                   schedule_execs, locked, opts, cur, did_something,
                   last_run, ret, call, procs>>

\* a status that times out as soon as the timeout has passed
WorkerStateInclusive(ws, tnow) ==
    IF ws.stopped # None
    THEN IF ws.exit_code = STOPPED THEN "STOPPED"
         ELSE IF ws.exit_code = TERMINATED THEN "TERMINATED"
         ELSE "CRASHED"
    ELSE IF ws.last_tick <= tnow - ws.timeout THEN "TIMEDOUT"
    ELSE "ONLINE"

\* models.py:277-289: WorkerStatus.state
WorkerState(ws, tnow) ==
    IF ws.stopped # None
    THEN IF ws.exit_code = STOPPED THEN "STOPPED"
         ELSE IF ws.exit_code = TERMINATED THEN "TERMINATED"
         ELSE "CRASHED"
    ELSE IF ws.last_tick < tnow - ws.timeout THEN "TIMEDOUT"
    ELSE "ONLINE"

\* worker.py:74-123: the command is run again under the label of a worker
\* that has exited
Restart(w) ==
    /\ pc[w] = "exited"
    /\ command' = [command EXCEPT ![w] = NewCommand]
    /\ pc' = [pc EXCEPT ![w] = "off"]
    /\ UNCHANGED <<now, tasks_registry, schedules_registry, rows,
                   schedule_execs, locked, opts, cur, did_something,
                   last_run, worker_status, ret, call, procs>>

---------------------------------------------------------------------------
(* The schedule steps of a tick, one statement of the code at a time *)

\* worker.py:213, 216: the names of the rows, read at the first test
ReadSchedules(w) ==
    /\ pc[w] = "schedules"
    /\ command' = [command EXCEPT ![w].existing_schedules_names =
                     {schedule_execs[k].name : k \in 1..Len(schedule_execs)}]
    /\ pc' = [pc EXCEPT ![w] = "insert_schedules"]
    /\ UNCHANGED <<now, tasks_registry, schedules_registry, rows,
                   schedule_execs, locked, opts, cur, did_something, last_run,
                   worker_status, ret, call, procs>>

\* a table without a unique constraint on name
NameTakenNever(ses, n) == FALSE

\* models.py:178: name is unique, the insert of a second row with the name
\* raises IntegrityError
NameTaken(ses, n) == \E k \in 1..Len(ses) : ses[k].name = n

RECURSIVE InsertMissing(_, _, _, _)
\* worker.py:214-226: a row for each schedule whose name was not read; the
\* IntegrityError of an insert is ignored
InsertMissing(ses, names, existing_schedules_names, tnow) ==
    IF names = {} THEN ses
    ELSE LET n == CHOOSE x \in names : TRUE
             last_due == IF schedules_registry[n].run_on_creation
                         THEN None ELSE tnow
         IN  InsertMissing(
                 IF n \in existing_schedules_names \/ NameTaken(ses, n)
                 THEN ses ELSE Append(ses, ScheduleExec(n, last_due)),
                 names \ {n}, existing_schedules_names, tnow)

\* worker.py:214-226
InsertSchedules(w) ==
    /\ pc[w] = "insert_schedules"
    /\ schedule_execs' =
          InsertMissing(schedule_execs, RelevantSchedules(w),
                        command[w].existing_schedules_names, now)
    /\ pc' = [pc EXCEPT ![w] = "execute_schedules"]
    /\ UNCHANGED <<now, tasks_registry, schedules_registry, rows, locked,
                   opts, command, cur, did_something, last_run,
                   worker_status, ret, call, procs>>

\* the ScheduleExec rows that the transactions of the workers hold locked
LockedSchedules == UNION {command[v].selected : v \in Workers}

\* a select that does not skip the locked rows
SkipLockedSchedulesOff(ks) == ks

\* worker.py:307: select_for_update(skip_locked=True)
SkipLockedSchedules(ks) == ks \ LockedSchedules

\* worker.py:229-230, 302-307: the queryset is evaluated; its rows are
\* locked and read
SelectSchedules(w) ==
    /\ pc[w] = "execute_schedules"
    /\ command' = [command EXCEPT
          ![w].selected = SkipLockedSchedules(
                 {k \in 1..Len(schedule_execs) :
                     schedule_execs[k].name \in RelevantSchedules(w)}),
          ![w].snapshot = schedule_execs]
    /\ pc' = [pc EXCEPT ![w] = "schedules_selected"]
    /\ UNCHANGED <<now, tasks_registry, schedules_registry, rows,
                   schedule_execs, locked, opts, cur, did_something, last_run,
                   worker_status, ret, call, procs>>

RECURSIVE ExecuteRead(_, _, _, _, _, _)
\* worker.py:230-231: schedule_exec.execute() for each row that was read;
\* execute saves the row as it was read, with the new last_due
ExecuteRead(rs, ses, ks, snapshot, did, tnow) ==
    IF ks = {} THEN [rows |-> rs, ses |-> ses, did |-> did]
    ELSE LET k == MinOf(ks)
             e == ScheduleExecExecute(rs, snapshot[k], tnow)
         IN  ExecuteRead(e.rows, [ses EXCEPT ![k] = e.se], ks \ {k},
                         snapshot, did \/ e.did, tnow)

\* worker.py:229-231: the schedules run and the transaction commits
ExecuteSelected(w) ==
    /\ pc[w] = "schedules_selected"
    /\ LET e == ExecuteRead(rows, schedule_execs, command[w].selected,
                            command[w].snapshot, did_something[w], now)
       IN  /\ Len(e.rows) <= MaxChain
           /\ rows' = e.rows
           /\ schedule_execs' = e.ses
           /\ did_something' = [did_something EXCEPT ![w] = e.did]
           /\ procs' = Pad(procs, Len(e.rows))
    /\ command' = [command EXCEPT ![w].selected = {}, ![w].snapshot = <<>>]
    /\ pc' = [pc EXCEPT ![w] = "wake"]
    /\ UNCHANGED <<now, tasks_registry, schedules_registry, locked, opts,
                   cur, last_run, worker_status, ret, call>>

---------------------------------------------------------------------------
(* The environment: callers of Task.enqueue, and the clock *)

\* a caller runs tasks_registry[name].enqueue(args, due=due): task.py:37-79
EnqueueCall(names, dues, cap) ==
    \E name \in names \cap DOMAIN tasks_registry, due \in dues :
        LET e == Enqueue(rows, name, 1, None, due, now)
        IN  /\ Len(e.rows) <= cap
            /\ rows' = e.rows
            /\ ret' = e.ret
            /\ call' = [n |-> 1 - call.n, name |-> name, args |-> 1,
                        kwargs |-> None, due |-> due,
                        sleeping_task |-> NoCur]
            /\ procs' = Pad(procs, Len(e.rows))
            /\ UNCHANGED <<now, tasks_registry, schedules_registry,
                           schedule_execs, locked, pc, opts, command, cur,
                           did_something, last_run, worker_status>>

\* task.py:47-59: the reads of Task.enqueue, and the rest of the call when
\* it does not save a SLEEPING row: the row that is to be saved is kept as
\* it was read, with its new due and state
EnqueueRead(names, dues, cap) ==
    \E name \in names \cap DOMAIN tasks_registry, due \in dues :
        LET t == tasks_registry[name]
            due_datetime == IF due = None THEN now ELSE due
            existing == ExistingTasks(rows, name, 1, None)
            queued == {i \in existing : rows[i].state = "QUEUED"}
            sleeping == {i \in existing : rows[i].state = "SLEEPING"}
            s == MinOf(sleeping)
            e == Enqueue(rows, name, 1, None, due, now)
        IN  /\ call.sleeping_task = NoCur
            /\ IF /\ EnqueueUnique(t) /\ queued = {} /\ sleeping # {}
                  /\ (due = None \/ rows[s].due > due_datetime)
               THEN /\ call' = [n |-> call.n, name |-> name, args |-> 1,
                                kwargs |-> None, due |-> due,
                                sleeping_task |->
                                   [id |-> s, row |-> e.rows[s]]]
                    /\ UNCHANGED <<rows, ret, procs>>
               ELSE /\ Len(e.rows) <= cap
                    /\ rows' = e.rows
                    /\ ret' = e.ret
                    /\ call' = [n |-> 1 - call.n, name |-> name, args |-> 1,
                                kwargs |-> None, due |-> due,
                                sleeping_task |-> NoCur]
                    /\ procs' = Pad(procs, Len(e.rows))
            /\ UNCHANGED <<now, tasks_registry, schedules_registry,
                           schedule_execs, locked, pc, opts, command, cur,
                           did_something, last_run, worker_status>>

\* task.py:60-69: sleeping_task.save() writes every field of the row as the
\* call holds it, and the call returns False; the save waits for a row lock
EnqueueSave ==
    /\ call.sleeping_task # NoCur
    /\ call.sleeping_task.id \notin locked
    /\ rows' = [rows EXCEPT ![call.sleeping_task.id] = call.sleeping_task.row]
    /\ ret' = False
    /\ call' = [call EXCEPT !.n = 1 - call.n, !.sleeping_task = NoCur]
    /\ UNCHANGED <<now, tasks_registry, schedules_registry, schedule_execs,
                   locked, pc, opts, command, cur, did_something, last_run,
                   worker_status, procs>>

\* Schedule.execute(dues) as admin.py:271 and models.py:222 call it: the
\* task is enqueued for each of the dues, and nothing else is written
ScheduleExecute(rs, name, dues, tnow) ==
    ScheduleEnqueue(rs, name, dues, None, tnow)

\* a forced run that stores its due, None, as the last_due of the schedule
ForceRunResets(cap) ==
    \E k \in 1..Len(schedule_execs) :
        LET name == schedule_execs[k].name
            e == ScheduleExecute(rows, name, <<None>>, now)
        IN  /\ name \in DOMAIN schedules_registry
            /\ Len(e.rows) <= cap
            /\ rows' = e.rows
            /\ schedule_execs' = [schedule_execs EXCEPT ![k].last_due = None]
            /\ call' = [n |-> 1 - call.n, name |-> name,
                        args |-> schedules_registry[name].args,
                        kwargs |-> None, due |-> None,
                        sleeping_task |-> NoCur]
            /\ procs' = Pad(procs, Len(e.rows))
            /\ UNCHANGED <<now, tasks_registry, schedules_registry,
                           locked, pc, opts, command, cur, did_something,
                           last_run, worker_status, ret>>

\* admin.py:261-271: the admin action runs schedule.execute(dues=[None])
\* for a ScheduleExec row; the row is not saved
ForceRun(cap) ==
    \E k \in 1..Len(schedule_execs) :
        LET name == schedule_execs[k].name
            e == ScheduleExecute(rows, name, <<None>>, now)
        IN  /\ name \in DOMAIN schedules_registry
            /\ Len(e.rows) <= cap
            /\ rows' = e.rows
            /\ call' = [n |-> 1 - call.n, name |-> name,
                        args |-> schedules_registry[name].args,
                        kwargs |-> None, due |-> None,
                        sleeping_task |-> NoCur]
            /\ procs' = Pad(procs, Len(e.rows))
            /\ UNCHANGED <<now, tasks_registry, schedules_registry,
                           schedule_execs, locked, pc, opts, command, cur,
                           did_something, last_run, worker_status, ret>>

\* the tasks that were not enqueued yet, for the tests that enqueue a task
\* once
NotEnqueued == {n \in DOMAIN tasks_registry :
                  \A i \in Ids(rows) : rows[i].task_name # n}

\* a second passes
ClockTick(limit) ==
    /\ now < limit
    /\ now' = now + 1
    /\ UNCHANGED <<tasks_registry, schedules_registry, rows, schedule_execs,
                   locked, pc, opts, command, cur, did_something, last_run,
                   worker_status, ret, call, procs>>

\* time passes until a sleeping row is due
ClockJump ==
    /\ \E i \in Ids(rows) : /\ rows[i].state = "SLEEPING"
                            /\ rows[i].due > now
                            /\ now' = rows[i].due
    /\ UNCHANGED <<tasks_registry, schedules_registry, rows, schedule_execs,
                   locked, pc, opts, command, cur, did_something, last_run,
                   worker_status, ret, call, procs>>

\* the options of a worker started without --queue, --once, --until_done
DefaultOptions ==
    [queues |-> {}, excluded_queues |-> {}, once |-> FALSE,
     until_done |-> FALSE, tick_duration |-> 1, timeout |-> Timeout]

\* the store is empty and `started` of the workers wait to be started
InitStore(started) ==
    /\ now = StartTime
    /\ rows = <<>>
    /\ schedule_execs = <<>>
    /\ locked = {}
    /\ pc = [w \in Workers |-> IF w \in started THEN "off" ELSE "absent"]
    /\ command = [w \in Workers |-> NewCommand]
    /\ cur = [w \in Workers |-> NoCur]
    /\ did_something = [w \in Workers |-> FALSE]
    /\ last_run = [w \in Workers |-> StartTime]
    /\ worker_status = [w \in Workers |-> [exists |-> FALSE]]
    /\ ret = False
    /\ call = [n |-> 0, name |-> "", args |-> 1, kwargs |-> None,
               due |-> None, sleeping_task |-> NoCur]
    /\ procs = <<>>

\* the steps of worker w
WorkerStep(w) ==
    \/ Start(w)
    \/ TickBegin(w)
    \/ CreateMissingSchedules(w)
    \/ ExecuteSchedules(w)
    \/ WakeUp(w)
    \/ LockTask(w)
    \/ MarkProcessing(w)
    \/ Commit(w)
    \/ RunTask(w)
    \/ TickEnd(w)
    \/ Wait(w)

---------------------------------------------------------------------------
(* Several workers on one store: tests_concurrency.py *)

InitConc ==
    /\ InitStore({1, 2})
    /\ tasks_registry = [n \in {"a"} |->
                            Task("default", 0, FALSE, 0, 0, "ok")]
    /\ schedules_registry = <<>>
    /\ opts = [w \in Workers |-> DefaultOptions]

NextConc ==
    \/ \E w \in Workers : WorkerStep(w)
    \/ EnqueueCall({"a"}, {None}, MaxRowsConc)
    \/ ClockTick(MaxTimeConc)

SpecConc == InitConc /\ [][NextConc]_vars

\* C1: whatever the interleaving of the workers' steps, every row is made
\* PROCESSING at most once, hence by at most one worker, and a row that is
\* PROCESSING or was executed was made PROCESSING exactly once
AtMostOneExecution ==
    \A i \in Ids(rows) :
        /\ Len(procs[i]) <= 1
        /\ rows[i].state \in {"PROCESSING", "SUCCEEDED", "FAILED"}
              => Len(procs[i]) = 1

\* two workers hold two different rows in their locking transactions
AtMostOneExecutionWitness ==
    /\ pc[1] = "commit"
    /\ pc[2] = "commit"
    /\ cur[1].id # cur[2].id
    /\ rows[cur[1].id].state = "QUEUED"
    /\ rows[cur[2].id].state = "QUEUED"

---------------------------------------------------------------------------
(* One worker and tasks of several priorities: tests_tasks.py:155-252 *)

InitPrio ==
    /\ InitStore({1})
    /\ tasks_registry = [n \in {"p1a", "p1b", "p2"} |->
          Task("default", IF n = "p2" THEN 2 ELSE 1, FALSE, 0, 0, "ok")]
    /\ schedules_registry = <<>>
    /\ opts = [w \in Workers |-> DefaultOptions]

NextPrio ==
    \/ \E w \in Workers : WorkerStep(w)
    \/ EnqueueCall(NotEnqueued, {None, MaxTime}, MaxRows)
    \/ ClockTick(MaxTime)

SpecPrio == InitPrio /\ [][NextPrio]_vars

\* row r comes before row q under (priority descending, due ascending,
\* created ascending)
ComesBefore(r, q) ==
    LET pr == tasks_registry[r.task_name].priority
        pq == tasks_registry[q.task_name].priority
    IN  \/ pr > pq
        \/ pr = pq /\ r.due < q.due
        \/ pr = pq /\ r.due = q.due /\ r.created < q.created

\* the QUEUED rows of the tasks in the queue set of worker w
QueuedFor(w) ==
    {i \in Ids(rows) :
        /\ rows[i].state = "QUEUED"
        /\ rows[i].task_name \in DOMAIN tasks_registry
        /\ LET q == tasks_registry[rows[i].task_name].queue
           IN  /\ opts[w].queues = {} \/ q \in opts[w].queues
               /\ q \notin opts[w].excluded_queues}

\* C2: the row a lone worker selects in a tick, which is the row it then
\* makes PROCESSING, is a QUEUED row of its queue set before which no other
\* such row comes under (priority descending, due ascending, created
\* ascending); it selects none only when there is none
PicksFirstQueued ==
    [][\A w \in Workers :
         (pc[w] = "lock" /\ pc'[w] # "lock") =>
            IF QueuedFor(w) = {} THEN pc'[w] = "end" /\ cur'[w] = NoCur
            ELSE /\ pc'[w] = "mark"
                 /\ cur'[w].id \in QueuedFor(w)
                 /\ \A j \in QueuedFor(w) :
                        ~ComesBefore(rows[j], rows[cur'[w].id])]_vars

\* p1a, p1b and p2 were enqueued in this order and all three were waiting:
\* p2 has been executed, p1a is being processed and p1b still waits
PicksFirstQueuedWitness ==
    /\ Len(rows) = 3
    /\ rows[1].task_name = "p1a" /\ rows[1].state = "PROCESSING"
    /\ rows[2].task_name = "p1b" /\ rows[2].state = "QUEUED"
    /\ rows[3].task_name = "p2" /\ rows[3].state = "SUCCEEDED"
    /\ rows[1].created < rows[2].created
    /\ rows[2].created < rows[3].created
    /\ rows[3].created <= rows[3].started

---------------------------------------------------------------------------
(* One worker and a task that always fails: tests_tasks.py:297-467 *)

InitRetry ==
    /\ InitStore({1})
    /\ \E retries \in -1..MaxRetries, retry_delay \in {0, 1, 10} :
          tasks_registry = [n \in {"div_zero"} |->
              Task("default", 0, FALSE, retries, retry_delay, "raise")]
    /\ schedules_registry = <<>>
    /\ opts = [w \in Workers |-> DefaultOptions]

NextRetry ==
    \/ \E w \in Workers : WorkerStep(w)
    \/ EnqueueCall(NotEnqueued, {None}, MaxChain)
    \/ ClockTick(MaxTime)
    \/ ClockJump

SpecRetry == InitRetry /\ [][NextRetry]_vars

\* the rows that a caller enqueued: they replace no row
Roots == {i \in Ids(rows) : \A j \in Ids(rows) : rows[j].replaced_by # i}

RECURSIVE Chain(_)
\* a row, its replacement, the replacement of its replacement, and so on
Chain(i) ==
    IF rows[i].replaced_by = None THEN <<i>>
    ELSE <<i>> \o Chain(rows[i].replaced_by)

\* the last row of the chain failed and was not replaced
ChainDone(i) ==
    LET last == Chain(i)[Len(Chain(i))] IN rows[last].state = "FAILED"

\* for each replacement of the chain, how long after the failure it is due
DueDelays(i) ==
    [k \in 1..(Len(Chain(i)) - 1) |->
        rows[Chain(i)[k + 1]].due - rows[Chain(i)[k]].finished]

RECURSIVE Pow2(_)
Pow2(n) == IF n = 0 THEN 1 ELSE 2 * Pow2(n - 1)

\* the failure of row i in this step
Fails(i) == rows[i].state = "PROCESSING" /\ rows'[i].state = "FAILED"

\* this step appends one row, the replacement of row i
Replaced(i) ==
    /\ Len(rows') = Len(rows) + 1
    /\ rows'[i].replaced_by = Len(rows')
    /\ rows'[Len(rows')].task_name = rows[i].task_name
    /\ rows'[Len(rows')].args = rows[i].args
    /\ rows'[Len(rows')].kwargs = rows[i].kwargs
    /\ rows'[Len(rows')].state = "SLEEPING"
    /\ rows'[Len(rows')].due = now + rows[i].retry_delay
    /\ rows'[Len(rows')].retry_delay = 2 * rows[i].retry_delay

\* this step appends no row
NotReplaced(i) == Len(rows') = Len(rows) /\ rows'[i].replaced_by = None

\* the task is registered with retries = N >= 0 and retry_delay = d: the k-th
\* row of a chain carries retries N-k+1 and retry_delay d*2^(k-1), a chain
\* never holds more than N+1 rows, and a finished chain holds exactly N+1
\* FAILED rows
RetryChains ==
    LET N == tasks_registry["div_zero"].retries
        d == tasks_registry["div_zero"].retry_delay
    IN  N >= 0 =>
          \A i \in Roots :
            /\ Len(Chain(i)) <= N + 1
            /\ \A k \in 1..Len(Chain(i)) :
                  /\ rows[Chain(i)[k]].retries = N - k + 1
                  /\ rows[Chain(i)[k]].retry_delay = d * Pow2(k - 1)
            /\ \A k \in 1..Len(DueDelays(i)) :
                  DueDelays(i)[k] = d * Pow2(k - 1)
            /\ ChainDone(i) =>
                  /\ Len(Chain(i)) = N + 1
                  /\ \A k \in 1..(N + 1) : rows[Chain(i)[k]].state = "FAILED"

\* C3: with retries = N >= 0 a task that always fails ends with N+1 FAILED
\* rows; the failure of a row with retries # 0 appends exactly one SLEEPING
\* replacement with retries one less, retry_delay doubled and due at the
\* failure time plus the failed row's retry_delay, so that the delays are
\* d, 2d, 4d, ...; the failure of a row with retries = 0 appends nothing
RetriesExhaust ==
    /\ []RetryChains
    /\ [][\A i \in Ids(rows) :
            (Fails(i) /\ tasks_registry["div_zero"].retries >= 0) =>
               IF rows[i].retries # 0
               THEN /\ Replaced(i)
                    /\ rows'[Len(rows')].retries = rows[i].retries - 1
               ELSE NotReplaced(i)]_vars

\* a task registered with retries = 2 and retry_delay = 10 has failed for
\* the third and last time
RetriesExhaustWitness ==
    /\ tasks_registry["div_zero"].retries = 2
    /\ tasks_registry["div_zero"].retry_delay = 10
    /\ Len(rows) = 3
    /\ \A i \in Ids(rows) : rows[i].state = "FAILED"
    /\ DueDelays(1) = <<10, 20>>

\* the task is registered with retries = 3 and retry_delay = 10
Retries3Delay10 ==
    /\ tasks_registry["div_zero"].retries = 3
    /\ tasks_registry["div_zero"].retry_delay = 10

\* C4, as stated: with retries = 3 and retry_delay = 10 the failures are
\* followed by four replacements, due 10, 20, 40 and 80 seconds after the
\* failure they follow
FourReplacements ==
    Retries3Delay10 =>
        \A i \in Roots : ChainDone(i) => DueDelays(i) = <<10, 20, 40, 80>>

\* C4, amended: with retries = 3 and retry_delay = 10 the first three
\* failures are followed by replacements due 10, 20 and 40 seconds after the
\* failure they follow; the fourth failure, of the row that carries
\* retries = 0 and retry_delay = 80, is followed by none
ThreeReplacements ==
    Retries3Delay10 =>
        \A i \in Roots :
            /\ Len(DueDelays(i)) <= 3
            /\ DueDelays(i) = SubSeq(<<10, 20, 40>>, 1, Len(DueDelays(i)))
            /\ ChainDone(i) =>
                  /\ DueDelays(i) = <<10, 20, 40>>
                  /\ \A k \in 1..4 : rows[Chain(i)[k]].state = "FAILED"
                  /\ rows[Chain(i)[4]].retries = 0
                  /\ rows[Chain(i)[4]].retry_delay = 80
                  /\ rows[Chain(i)[4]].replaced_by = None

\* the fourth row of the chain has failed
ThreeReplacementsWitness ==
    /\ Retries3Delay10
    /\ Len(rows) = 4
    /\ ChainDone(1)
    /\ rows[4].state = "FAILED"
    /\ rows[4].finished >= rows[1].finished + 70

\* C5: with retries = -1 the retries never run out: every failure, however
\* many came before, appends a SLEEPING replacement that carries
\* retries = -1 again
RetriesForever ==
    [][\A i \in Ids(rows) :
         (Fails(i) /\ rows[i].retries = -1) =>
             /\ Replaced(i)
             /\ rows'[Len(rows')].retries = -1]_vars

\* the task has failed four times in a row and the fifth row waits
RetriesForeverWitness ==
    /\ tasks_registry["div_zero"].retries = -1
    /\ Len(rows) = MaxChain
    /\ Chain(1) = [k \in 1..MaxChain |-> k]
    /\ \A i \in 1..(MaxChain - 1) : rows[i].state = "FAILED"
    /\ rows[MaxChain].retries = -1
    /\ rows[MaxChain].state = "SLEEPING"

---------------------------------------------------------------------------
(* One worker started with --queue default, a unique task of this queue
   that fails and is retried once, and a task of another queue that is not
   unique: tests_tasks.py:254-295, 469-578 *)

InitEnq ==
    /\ InitStore({1})
    /\ tasks_registry = [n \in {"unique", "normal"} |->
          IF n = "unique" THEN Task("default", 0, TRUE, 1, 1, "raise")
                          ELSE Task("other", 0, FALSE, 0, 0, "ok")]
    /\ schedules_registry = <<>>
    /\ opts = [w \in Workers |->
                  [DefaultOptions EXCEPT !.queues = {"default"}]]

NextEnq ==
    \/ \E w \in Workers : WorkerStep(w)
    \/ EnqueueCall({"unique", "normal"},
                   {None, StartTime, StartTime + 1}, MaxRows)
    \/ ClockTick(MaxTimeEnq)

SpecEnq == InitEnq /\ [][NextEnq]_vars

\* this step is a call of enqueue
EnqStep == call'.n # call.n

\* the rows in state st with the task name, args and kwargs of the call
Identical(st) ==
    {i \in Ids(rows) : /\ rows[i].task_name = call'.name
                       /\ rows[i].args = call'.args
                       /\ rows[i].kwargs = call'.kwargs
                       /\ rows[i].state = st}

\* this step inserts one row and leaves the others as they are
Inserted ==
    /\ Len(rows') = Len(rows) + 1
    /\ SubSeq(rows', 1, Len(rows)) = rows
    /\ ret' = Len(rows')
    /\ rows'[Len(rows')].task_name = call'.name
    /\ rows'[Len(rows')].args = call'.args
    /\ rows'[Len(rows')].kwargs = call'.kwargs

\* C6: enqueue of a unique task while an identical row is QUEUED inserts no
\* row, returns false and changes no row; enqueue of a task that is not
\* unique inserts one row at each call; enqueue of a unique task of which no
\* identical row is QUEUED or SLEEPING, the earlier ones being done, inserts
\* one row
UniqueCollapse ==
    [][EnqStep =>
         LET unique == tasks_registry[call'.name].unique
         IN  /\ (unique /\ Identical("QUEUED") # {}) =>
                    rows' = rows /\ ret' = False
             /\ ~unique => Inserted
             /\ (unique /\ Identical("QUEUED") = {}
                        /\ Identical("SLEEPING") = {}) => Inserted]_vars

\* the unique task was enqueued again while its row was QUEUED: the call
\* returned false and the table holds this one row
UniqueCollapseWitness ==
    /\ call.name = "unique"
    /\ ret = False
    /\ Len(rows) = 1
    /\ rows[1].task_name = "unique"
    /\ rows[1].state = "QUEUED"
    /\ rows[1].due = rows[1].created
    /\ call.due = None
    /\ pc[1] = "off"

\* this step is a call of enqueue for a unique task, with or without a due,
\* that finds identical SLEEPING rows
FindsSleeping(with_due) ==
    /\ EnqStep
    /\ tasks_registry[call'.name].unique
    /\ (call'.due # None) = with_due
    /\ Identical("SLEEPING") # {}

\* this step inserts no row and the call returns false
Collapsed == Len(rows') = Len(rows) /\ ret' = False

\* this step postpones the due of no row
NotPostponed == \A i \in Ids(rows) : rows'[i].due <= rows[i].due

\* this step sets the due of row s to the earlier of its due and the due
\* of the call, and changes nothing else
Shrunk(s) ==
    rows' = [rows EXCEPT ![s].due = Min2(rows[s].due, call'.due)]

Promoted(s) ==
    rows' = [rows EXCEPT ![s].due = now, ![s].state = "QUEUED"]

Inserts == EnqStep /\ Len(rows') = Len(rows) + 1

\* the retries and retry_delay of the inserted row are those of the task
CopiesRetries ==
    /\ rows'[Len(rows')].retries = tasks_registry[call'.name].retries
    /\ rows'[Len(rows')].retry_delay = tasks_registry[call'.name].retry_delay

---------------------------------------------------------------------------
(* One worker and one schedule: tests_schedules.py:12-122 *)

InitSched ==
    /\ InitStore({1})
    /\ \E unique \in BOOLEAN :
          tasks_registry = [n \in {"normal"} |->
              Task("default", 0, unique, 0, 0, "ok")]
    /\ \E cron \in {1, 2}, catch_up \in BOOLEAN, run_on_creation \in BOOLEAN,
          datetime_kwarg \in BOOLEAN :
          schedules_registry = [n \in {"normal"} |->
              Schedule("default", cron, 1, catch_up, run_on_creation,
                       datetime_kwarg)]
    /\ opts = [w \in Workers |-> DefaultOptions]

NextSched ==
    \/ \E w \in Workers : WorkerStep(w)
    \/ ClockTick(MaxSchedTime)

SpecSched == InitSched /\ [][NextSched]_vars

\* the cron boundaries between the stored last_due of a schedule and now
Boundaries(se) ==
    {t \in (se.last_due + 1)..(now - 1) :
        t % schedules_registry[se.name].cron = 0}

\* the latest time of a set of times
MaxOf(S) == CHOOSE t \in S : \A u \in S : u <= t

\* this step appends rows for the task of the schedule that are due at the
\* times dues, in this order, and changes no other row
EnqueuedAt(se, dues) ==
    /\ Len(rows') = Len(rows) + Len(dues)
    /\ SubSeq(rows', 1, Len(rows)) = rows
    /\ \A k \in 1..Len(dues) :
          /\ rows'[Len(rows) + k].task_name = se.name
          /\ rows'[Len(rows) + k].due = dues[k]
          /\ rows'[Len(rows) + k].kwargs =
                IF schedules_registry[se.name].datetime_kwarg
                THEN dues[k] ELSE None

\* what the schedule is to enqueue at this tick
Expected(se) ==
    IF Boundaries(se) = {} THEN <<>>
    ELSE IF schedules_registry[se.name].catch_up
    THEN Ascending(Boundaries(se))
    ELSE <<MaxOf(Boundaries(se))>>

\* this step is worker w executing the schedules in a tick
SchedStep(w) == pc[w] = "execute_schedules" /\ pc'[w] = "wake"

\* the rows that enqueue makes for the boundaries differ from each other:
\* the task is not unique, or the boundary is passed to it as a kwarg
Distinct(se) ==
    \/ ~tasks_registry[se.name].unique
    \/ schedules_registry[se.name].datetime_kwarg

\* C10, as stated: at a tick with k boundaries between last_due and now the
\* schedule enqueues nothing if k = 0, one task for the latest boundary if
\* k >= 1 without catch_up, and k tasks, one for each boundary, with it
CatchesUp ==
    [][\A w \in Workers : SchedStep(w) =>
          \A k \in 1..Len(schedule_execs) :
             schedule_execs[k].last_due # None =>
                EnqueuedAt(schedule_execs[k], Expected(schedule_execs[k]))]_vars

\* C10, amended: so it is when the task is not unique or gets the boundary
\* as a kwarg, and then the stored last_due becomes the latest boundary; the
\* enqueues of a unique task with the same args and kwargs at every
\* boundary collapse, and the tick inserts one row at most
CatchesUpDistinct ==
    [][\A w \in Workers : SchedStep(w) =>
          \A k \in 1..Len(schedule_execs) :
             schedule_execs[k].last_due # None =>
                LET se == schedule_execs[k]
                IN  /\ IF Distinct(se)
                       THEN EnqueuedAt(se, Expected(se))
                       ELSE Len(rows') <= Len(rows) + 1
                    /\ schedule_execs'[k].last_due =
                          IF Boundaries(se) = {} THEN se.last_due
                          ELSE MaxOf(Boundaries(se))]_vars

\* a schedule with catch_up was left unchecked over three boundaries, and
\* the tick has enqueued one task for each of them
CatchesUpDistinctWitness ==
    /\ schedules_registry["normal"].catch_up
    /\ ~tasks_registry["normal"].unique
    /\ ~schedules_registry["normal"].run_on_creation
    /\ Len(rows) = 3
    /\ rows[1].created = rows[3].created
    /\ rows[2].created = rows[3].created
    /\ rows[1].due < rows[2].due
    /\ rows[2].due < rows[3].due
    /\ rows[3].due < rows[3].created
    /\ schedule_execs[1].last_due = rows[3].due

\* the same, and a caller that enqueues the task of the schedule, once
NextSchedCaller ==
    \/ \E w \in Workers : WorkerStep(w)
    \/ EnqueueCall(NotEnqueued, {None}, MaxRows)
    \/ ClockTick(MaxTime)

SpecSchedCaller == InitSched /\ [][NextSchedCaller]_vars

\* this step is worker w creating the ScheduleExec row of a schedule
CreationStep(w) ==
    /\ pc[w] = "schedules" /\ pc'[w] = "execute_schedules"
    /\ Len(schedule_execs') = Len(schedule_execs) + 1

\* the most recent cron boundary of the schedule before now
MostRecent(se) ==
    MaxOf({t \in 0..(now - 1) : t % schedules_registry[se.name].cron = 0})

\* the row is created with no last_due if the schedule has run_on_creation
\* and with last_due = now if not
CreatedDue ==
    \A w \in Workers : CreationStep(w) =>
        LET se == schedule_execs'[Len(schedule_execs')]
        IN  se.last_due = IF schedules_registry[se.name].run_on_creation
                          THEN None ELSE now

\* until a boundary lies between its last_due and now, a schedule without
\* run_on_creation enqueues nothing and keeps its last_due, which is so the
\* time its row was created at until the first boundary after it has passed
NothingBefore ==
    \A w \in Workers : SchedStep(w) =>
        \A k \in 1..Len(schedule_execs) :
           LET se == schedule_execs[k]
           IN  (/\ ~schedules_registry[se.name].run_on_creation
                /\ se.last_due # None
                /\ Boundaries(se) = {}) =>
                   /\ rows' = rows
                   /\ schedule_execs'[k].last_due = se.last_due

\* an identical row of the unique task of the schedule waits already
Waiting(se) ==
    /\ tasks_registry[se.name].unique
    /\ ~schedules_registry[se.name].datetime_kwarg
    /\ \E i \in Ids(rows) :
          /\ rows[i].task_name = se.name
          /\ rows[i].args = schedules_registry[se.name].args
          /\ rows[i].kwargs = None
          /\ rows[i].state \in {"QUEUED", "SLEEPING"}

\* C11, as stated: in the tick that creates its row, a schedule with
\* run_on_creation enqueues one task for the most recent boundary before
\* now; one without enqueues nothing in that tick nor later until the first
\* boundary after the creation has passed
RunsOnCreation ==
    [][/\ CreatedDue
       /\ NothingBefore
       /\ \A w \in Workers : SchedStep(w) =>
            \A k \in 1..Len(schedule_execs) :
               schedule_execs[k].last_due = None =>
                  /\ EnqueuedAt(schedule_execs[k],
                                <<MostRecent(schedule_execs[k])>>)
                  /\ schedule_execs'[k].last_due =
                        MostRecent(schedule_execs[k])]_vars

\* C11, amended: the same, except that the enqueue of the tick of creation
\* inserts no row when the task is unique and an identical row is QUEUED or
\* SLEEPING already; last_due becomes the most recent boundary all the same
RunsOnCreationOnce ==
    [][/\ CreatedDue
       /\ NothingBefore
       /\ \A w \in Workers : SchedStep(w) =>
            \A k \in 1..Len(schedule_execs) :
               schedule_execs[k].last_due = None =>
                  /\ IF Waiting(schedule_execs[k])
                     THEN Len(rows') = Len(rows)
                     ELSE EnqueuedAt(schedule_execs[k],
                                     <<MostRecent(schedule_execs[k])>>)
                  /\ schedule_execs'[k].last_due =
                        MostRecent(schedule_execs[k])]_vars

\* the first tick of a worker has created the row of a schedule with
\* run_on_creation at second 3 and has enqueued its task for second 2, the
\* boundary before
RunsOnCreationOnceWitness ==
    /\ schedules_registry["normal"].run_on_creation
    /\ schedules_registry["normal"].cron = 2
    /\ Len(schedule_execs) = 1
    /\ Len(rows) = 1
    /\ call.name = ""
    /\ rows[1].created = StartTime + 1
    /\ rows[1].due = StartTime
    /\ rows[1].state = "SLEEPING"
    /\ schedule_execs[1].last_due = StartTime
    /\ pc[1] = "wake"

---------------------------------------------------------------------------
(* Several workers and one schedule: tests_concurrency.py:56-61 *)

InitSchedConc ==
    /\ InitStore({1, 2})
    /\ tasks_registry = [n \in {"normal"} |->
                            Task("default", 0, FALSE, 0, 0, "ok")]
    /\ \E catch_up \in BOOLEAN, run_on_creation \in BOOLEAN :
          schedules_registry = [n \in {"normal"} |->
              Schedule("default", 1, 1, catch_up, run_on_creation, FALSE)]
    /\ opts = [w \in Workers |-> DefaultOptions]

\* the steps of worker w, the schedule steps one statement at a time
ConcurrentStep(w) ==
    \/ Start(w)
    \/ TickBegin(w)
    \/ ReadSchedules(w)
    \/ InsertSchedules(w)
    \/ SelectSchedules(w)
    \/ ExecuteSelected(w)
    \/ WakeUp(w)
    \/ LockTask(w)
    \/ MarkProcessing(w)
    \/ Commit(w)
    \/ RunTask(w)
    \/ TickEnd(w)
    \/ Wait(w)

NextSchedConc ==
    \/ \E w \in Workers : ConcurrentStep(w)
    \/ ClockTick(MaxTimeConc)

SpecSchedConc == InitSchedConc /\ [][NextSchedConc]_vars

\* worker w has gone through the creation of the missing rows
HasInserted(w) == pc[w] \notin {"absent", "off", "tick", "schedules",
                                "insert_schedules"}

\* C12: workers that each found the row of a schedule missing leave one row
\* of its name, not two, and none of them fails: no two rows ever carry the
\* same name, and past the creation step of a worker each of its schedules
\* has its row and the worker goes on with its tick
OneRowPerSchedule ==
    /\ \A k1, k2 \in 1..Len(schedule_execs) :
          schedule_execs[k1].name = schedule_execs[k2].name => k1 = k2
    /\ \A w \in Workers : HasInserted(w) =>
          /\ \A n \in RelevantSchedules(w) :
                \E k \in 1..Len(schedule_execs) : schedule_execs[k].name = n
          /\ pc[w] \notin {"crash", "exited"}

\* both workers found the row missing and both are past its creation
OneRowPerScheduleWitness ==
    /\ HasInserted(1) /\ HasInserted(2)
    /\ command[1].existing_schedules_names = {}
    /\ command[2].existing_schedules_names = {}
    /\ Len(schedule_execs) = 1

\* C13: a boundary of a schedule is fired by one worker at most: no two
\* rows of its task are due at the same boundary; a worker that finds the
\* row of the schedule locked selects nothing and goes on with its tick
FiredOnce ==
    /\ [](\A i, j \in Ids(rows) :
             (rows[i].task_name = rows[j].task_name
                /\ rows[i].due = rows[j].due) => i = j)
    /\ [][\A w \in Workers :
            (pc[w] = "execute_schedules" /\ pc'[w] # "execute_schedules") =>
               /\ pc'[w] = "schedules_selected"
               /\ command'[w].selected =
                     {k \in 1..Len(schedule_execs) :
                        \A v \in Workers : k \notin command[v].selected}
               /\ schedule_execs' = schedule_execs]_vars

\* worker 1 holds the row of the schedule locked in its transaction, and
\* worker 2 has selected nothing
FiredOnceWitness ==
    /\ pc[1] = "schedules_selected" /\ command[1].selected = {1}
    /\ pc[2] = "schedules_selected" /\ command[2].selected = {}

---------------------------------------------------------------------------
(* Registrations removed between two runs of a worker:
   tests_tasks.py:52-79, tests_schedules.py:124-160 *)

\* no worker runs
NoneRuns == \A w \in Workers : pc[w] \in {"absent", "off", "exited"}

\* tests_schedules.py:143: del schedules_registry[name]
UnregisterSchedule ==
    /\ NoneRuns
    /\ \E n \in DOMAIN schedules_registry :
          schedules_registry' =
             [m \in DOMAIN schedules_registry \ {n} |-> schedules_registry[m]]
    /\ UNCHANGED <<now, tasks_registry, rows, schedule_execs, locked, pc,
                   opts, command, cur, did_something, last_run,
                   worker_status, ret, call, procs>>

\* the application is deployed without a task that no schedule runs
UnregisterTask ==
    /\ NoneRuns
    /\ \E n \in DOMAIN tasks_registry \ DOMAIN schedules_registry :
          tasks_registry' =
             [m \in DOMAIN tasks_registry \ {n} |-> tasks_registry[m]]
    /\ UNCHANGED <<now, schedules_registry, rows, schedule_execs, locked, pc,
                   opts, command, cur, did_something, last_run,
                   worker_status, ret, call, procs>>

InitOrphan ==
    /\ InitStore({1})
    /\ \E result \in {"ok", "raise"} :
          tasks_registry =
             [n \in {"normal", "invalid"} |->
                 Task("default", 0, FALSE, 0, 0,
                      IF n = "invalid" THEN result ELSE "ok")]
    /\ \E run_on_creation \in BOOLEAN :
          schedules_registry =
             [n \in {"normal", "invalid"} |->
                 Schedule("default", 1, 1, FALSE, run_on_creation, FALSE)]
    /\ opts = [w \in Workers |-> [DefaultOptions EXCEPT !.until_done = TRUE]]

\* the steps of a worker started with --until_done, which does not wait
UntilDoneStep(w) ==
    \/ Start(w)
    \/ TickBegin(w)
    \/ CreateMissingSchedules(w)
    \/ ExecuteSchedules(w)
    \/ WakeUp(w)
    \/ LockTask(w)
    \/ MarkProcessing(w)
    \/ Commit(w)
    \/ RunTask(w)
    \/ TickEnd(w)
    \/ Stop(w)
    \/ Restart(w)

NextOrphan ==
    \/ UntilDoneStep(1)
    \/ UnregisterSchedule
    \/ UnregisterTask
    \/ EnqueueCall(NotEnqueued, {MaxTime}, MaxRows)
    \/ ClockTick(MaxTimeConc)

SpecOrphan == InitOrphan /\ [][NextOrphan]_vars

\* worker w goes through the first steps of a tick
Sweeps(w) == pc[w] = "tick" /\ pc'[w] = "schedules"

\* C14: the tick of a worker marks INVALID the QUEUED and the SLEEPING rows
\* of the tasks that are not registered, and leaves their SUCCEEDED and
\* FAILED rows as they are
OrphanTasksPendingOnly ==
    [][\A w \in Workers : Sweeps(w) =>
          \A i \in Ids(rows) :
             rows[i].task_name \notin DOMAIN tasks_registry =>
                /\ rows[i].state \in {"QUEUED", "SLEEPING"} =>
                      rows'[i].state = "INVALID"
                /\ rows[i].state \in {"SUCCEEDED", "FAILED"} =>
                      rows'[i] = rows[i]]_vars

\* C15: the tick of a worker marks INVALID the rows of the schedules that
\* are not registered and leaves the rows of the registered ones ACTIVE; no
\* step deletes a row; the row of a schedule that is not registered is not
\* executed: its last_due and last_task stay, and no worker adds a row of
\* its task
OrphanSchedulesInvalid ==
    [][/\ \A w \in Workers : Sweeps(w) =>
             \A k \in 1..Len(schedule_execs) :
                IF schedule_execs[k].name \in DOMAIN schedules_registry
                THEN /\ schedule_execs'[k] = schedule_execs[k]
                     /\ schedule_execs[k].state = "ACTIVE"
                ELSE schedule_execs'[k] =
                        [schedule_execs[k] EXCEPT !.state = "INVALID"]
       /\ Len(schedule_execs') >= Len(schedule_execs)
       /\ \A k \in 1..Len(schedule_execs) :
             /\ schedule_execs'[k].name = schedule_execs[k].name
             /\ schedule_execs[k].name \notin DOMAIN schedules_registry' =>
                   /\ schedule_execs'[k].last_due = schedule_execs[k].last_due
                   /\ schedule_execs'[k].last_task =
                         schedule_execs[k].last_task
                   /\ call' = call =>
                         \A i \in Ids(rows') \ Ids(rows) :
                            rows'[i].task_name # schedule_execs[k].name]_vars

\* after a tick, the row of a schedule that is not registered is INVALID,
\* the row of a registered schedule is ACTIVE and has enqueued a task
OrphanSchedulesInvalidWitness ==
    /\ pc[1] = "wake"
    /\ \E k1, k2 \in 1..Len(schedule_execs) :
          /\ schedule_execs[k1].name \notin DOMAIN schedules_registry
          /\ schedule_execs[k1].state = "INVALID"
          /\ schedule_execs[k2].name \in DOMAIN schedules_registry
          /\ schedule_execs[k2].state = "ACTIVE"
          /\ schedule_execs[k2].last_task # None
          /\ rows[schedule_execs[k2].last_task].created = now

---------------------------------------------------------------------------
(* Workers that are signalled while they run: tests_worker.py:126-241 *)

InitSignal ==
    /\ InitStore({1})
    /\ \E retries \in {0, 1}, result \in {"ok", "raise"} :
          tasks_registry = [n \in {"sleep_task"} |->
                               Task("default", 0, FALSE, retries, 1, result)]
    /\ schedules_registry = <<>>
    /\ opts = [w \in Workers |-> DefaultOptions]

\* the steps of worker w, execute() one statement at a time, and the
\* signals it receives
SignalStep(w) ==
    \/ Start(w)
    \/ TickBegin(w)
    \/ CreateMissingSchedules(w)
    \/ ExecuteSchedules(w)
    \/ WakeUp(w)
    \/ LockTask(w)
    \/ MarkProcessing(w)
    \/ Commit(w)
    \/ EnterExecute(w)
    \/ RunCallable(w)
    \/ SaveTask(w)
    \/ ClearTask(w)
    \/ TickEnd(w)
    \/ Wait(w)
    \/ Stop(w)
    \/ Crash(w)
    \/ Sigint(w)
    \/ Sigterm(w)
    \/ Sigusr1(w)
    \/ Sigkill(w)

NextSignal ==
    \/ SignalStep(1)
    \/ EnqueueCall(NotEnqueued, {None}, MaxRows)
    \/ ClockTick(MaxTimeSignal)

SpecSignal == InitSignal /\ [][NextSignal]_vars

\* a KeyboardInterrupt is raised in worker w, whose loop ends
Terminated(w) ==
    /\ pc[w] \in LoopPcs
    /\ pc'[w] = "exited" \/ (pc[w] = "run" /\ pc'[w] = "crash")

\* C16: when a worker is terminated while a row is PROCESSING, the row
\* becomes INTERRUPTED with no result, and one replacement is created,
\* SLEEPING, with the task name, the arguments, the retries and the
\* retry_delay of the row, whatever the retries of the row
InterruptedAndReplaced ==
    [][\A w \in Workers, i \in Ids(rows) :
          (/\ Terminated(w)
           /\ rows[i].state = "PROCESSING"
           /\ rows[i].worker = w) =>
             /\ rows'[i].state = "INTERRUPTED"
             /\ rows'[i].result = None
             /\ Len(rows') = Len(rows) + 1
             /\ rows'[i].replaced_by = Len(rows')
             /\ LET r == rows'[Len(rows')]
                IN  /\ r.state = "SLEEPING"
                    /\ r.task_name = rows[i].task_name
                    /\ r.args = rows[i].args
                    /\ r.kwargs = rows[i].kwargs
                    /\ r.retries = rows[i].retries
                    /\ r.retry_delay = rows[i].retry_delay]_vars

\* C18: when a worker exits, its status row has the stop time and the exit
\* code of the cause: STOPPED and an empty log when the loop returned,
\* CRASHED and the traceback when an exception other than KeyboardInterrupt
\* and SystemExit left the loop, TERMINATED and the traceback when a
\* KeyboardInterrupt left it; the process returns the recorded exit code
ExitRecorded ==
    /\ [][\A w \in Workers :
            (pc[w] # "exited" /\ pc'[w] = "exited") =>
               /\ worker_status'[w].stopped = now
               /\ command'[w].returncode = worker_status'[w].exit_code
               /\ worker_status'[w].exit_code =
                     IF pc[w] = "stop" THEN 0
                     ELSE IF pc[w] = "crash" THEN 99 ELSE 77
               /\ worker_status'[w].exit_log =
                     IF pc[w] = "stop" THEN EmptyLog ELSE Traceback]_vars
    /\ [](\A w \in Workers : pc[w] = "exited" =>
             /\ worker_status[w].stopped # None
             /\ worker_status[w].exit_code \in {0, 77, 99}
             /\ command[w].returncode = worker_status[w].exit_code)

\* the worker was sent SIGUSR1 while it ran a task, and has exited CRASHED
ExitRecordedWitness ==
    /\ pc[1] = "exited"
    /\ command[1].simulate_exception
    /\ worker_status[1].exit_code = CRASHED
    /\ worker_status[1].exit_log = Traceback
    /\ \E i \in Ids(rows) : rows[i].state \in {"SUCCEEDED", "FAILED"}

\* C20: the state of a status row is a function of the row and of the time:
\* with a stop time, STOPPED for the exit code 0, TERMINATED for 77 and
\* CRASHED for any other; without one, TIMEDOUT when last_tick is older than
\* now - timeout and ONLINE otherwise; the workers store the exit codes 0,
\* 77 and 99 only, and nothing in the row of a worker that is TIMEDOUT
StateOfStatus ==
    \A w \in Workers : worker_status[w].exists =>
       /\ \A code \in {worker_status[w].exit_code, None, 0, 1, 77, 99} :
             LET ws == [worker_status[w] EXCEPT !.exit_code = code]
                 state == WorkerState(ws, now)
             IN  IF ws.stopped # None
                 THEN /\ state = "STOPPED" <=> code = 0
                      /\ state = "TERMINATED" <=> code = 77
                      /\ state = "CRASHED" <=> code \notin {0, 77}
                 ELSE /\ state = "TIMEDOUT" <=>
                            ws.last_tick + ws.timeout < now
                      /\ state = "ONLINE" <=>
                            ws.last_tick + ws.timeout >= now
       /\ worker_status[w].exit_code \in {None, 0, 77, 99}
       /\ worker_status[w].stopped = None <=>
             worker_status[w].exit_code = None
       /\ WorkerState(worker_status[w], now) = "TIMEDOUT" =>
             /\ worker_status[w].exit_code = None
             /\ worker_status[w].exit_log = None

\* a worker that was killed is TIMEDOUT, a second after it was ONLINE
StateOfStatusWitness ==
    /\ pc[1] = "killed"
    /\ WorkerState(worker_status[1], now) = "TIMEDOUT"
    /\ WorkerState(worker_status[1], now - 1) = "ONLINE"

---------------------------------------------------------------------------
(* A worker is killed, another one goes on: tests_worker.py:163-187 *)

InitKill ==
    /\ InitStore({1, 2})
    /\ \E result \in {"ok", "raise"} :
          tasks_registry = [n \in {"sleep_task"} |->
                               Task("default", 0, FALSE, 0, 0, result)]
    /\ schedules_registry = <<>>
    /\ opts = [w \in Workers |-> DefaultOptions]

NextKill ==
    \/ \E w \in Workers : WorkerStep(w)
    \/ Sigkill(1)
    \/ EnqueueCall(NotEnqueued, {None}, MaxRows)
    \/ ClockTick(MaxTimeSignal)

SpecKill == InitKill /\ [][NextKill]_vars

\* C19: the PROCESSING row of a worker that was killed is changed by no
\* step of any worker: it stays PROCESSING and is not replaced; the status
\* of the killed worker has no stop time and no exit log, and reads ONLINE
\* until more than its timeout has passed since its last tick, TIMEDOUT
\* afterwards
KilledStaysProcessing ==
    /\ [][\A i \in Ids(rows) :
            (rows[i].state = "PROCESSING" /\ pc[rows[i].worker] = "killed")
               => /\ rows'[i] = rows[i]
                  /\ \A j \in Ids(rows') \ Ids(rows) :
                        rows'[j].task_name # rows[i].task_name]_vars
    /\ [](\A w \in Workers : pc[w] = "killed" =>
             /\ worker_status[w].stopped = None
             /\ worker_status[w].exit_log = None
             /\ WorkerState(worker_status[w], now) =
                   IF now - worker_status[w].last_tick
                         > worker_status[w].timeout
                   THEN "TIMEDOUT" ELSE "ONLINE")

\* worker 1 was killed with its row PROCESSING and has timed out; worker 2
\* has gone through a tick since, and waits for the next
KilledStaysProcessingWitness ==
    /\ pc[1] = "killed"
    /\ \E i \in Ids(rows) : rows[i].state = "PROCESSING" /\ rows[i].worker = 1
    /\ WorkerState(worker_status[1], now) = "TIMEDOUT"
    /\ pc[2] = "wait"
    /\ worker_status[2].last_tick = now

---------------------------------------------------------------------------
(* A worker is sent one SIGINT: tests_worker.py:225-241 *)

\* the steps of the code of worker w, execute() one statement at a time
ProgramStep(w) ==
    \/ Start(w)
    \/ TickBegin(w)
    \/ CreateMissingSchedules(w)
    \/ ExecuteSchedules(w)
    \/ WakeUp(w)
    \/ LockTask(w)
    \/ MarkProcessing(w)
    \/ Commit(w)
    \/ EnterExecute(w)
    \/ RunCallable(w)
    \/ SaveTask(w)
    \/ ClearTask(w)
    \/ TickEnd(w)
    \/ Wait(w)
    \/ Stop(w)

NextQuit ==
    \/ ProgramStep(1)
    \/ ~command[1].exit_requested /\ Sigint(1)
    \/ EnqueueCall(NotEnqueued, {None}, MaxRows)
    \/ ClockTick(MaxTime)

\* the process of the worker is scheduled as long as it runs
SpecQuit == InitSignal /\ [][NextQuit]_vars /\ WF_vars(ProgramStep(1))

\* worker w executes a task: its row is PROCESSING and execute() has not
\* saved it
Executing(w) == pc[w] \in {"run", "callable", "finish"}

\* C17: a worker that gets a first SIGINT while it executes a task ends the
\* task, whose row is SUCCEEDED or FAILED, and then exits with the code
\* STOPPED and an empty log; no row is INTERRUPTED, and the rows that were
\* replaced are the FAILED ones, replaced for a retry
GracefulStop ==
    /\ (Executing(1) /\ command[1].exit_requested) ~>
          /\ pc[1] = "exited"
          /\ worker_status[1].exit_code = STOPPED
          /\ worker_status[1].exit_log = EmptyLog
          /\ command[1].returncode = STOPPED
          /\ \E i \in Ids(rows) : /\ rows[i].worker = 1
                                  /\ rows[i].state \in {"SUCCEEDED", "FAILED"}
    /\ [](\A i \in Ids(rows) :
             /\ rows[i].state # "INTERRUPTED"
             /\ rows[i].replaced_by # None =>
                   /\ rows[i].state = "FAILED"
                   /\ rows[rows[i].replaced_by].retries = rows[i].retries - 1)
    /\ [][\A i \in Ids(rows) :
            (Executing(1) /\ command[1].exit_requested /\ cur[1].id = i
               /\ rows'[i] # rows[i])
               => rows'[i].state \in {"SUCCEEDED", "FAILED"}]_vars

\* the worker got the SIGINT while it executed the task, and has exited
GracefulStopWitness ==
    /\ pc[1] = "exited"
    /\ command[1].exit_requested
    /\ worker_status[1].exit_code = STOPPED
    /\ \E i \in Ids(rows) :
          /\ rows[i].state \in {"SUCCEEDED", "FAILED"}
          /\ rows[i].finished = worker_status[1].stopped
          /\ last_run[1] = rows[i].started

---------------------------------------------------------------------------
(* A worker started with --queue or --exclude_queue:
   tests_tasks.py:580-700 *)

\* the --queue and --exclude_queue of the tests
QueueOptions ==
    {[DefaultOptions EXCEPT !.queues = {"a"}],
     [DefaultOptions EXCEPT !.excluded_queues = {"a"}],
     DefaultOptions}

\* task a is on queue a and its schedule on queue b, task b on queue b and
\* its schedule on queue a
InitQueue ==
    /\ InitStore({1})
    /\ tasks_registry = [n \in {"a", "b"} |->
                            Task(n, 0, FALSE, 0, 0, "ok")]
    /\ schedules_registry =
          [n \in {"a", "b"} |->
              Schedule(IF n = "a" THEN "b" ELSE "a", 2, 1, FALSE, TRUE, FALSE)]
    /\ \E o \in QueueOptions : opts = [w \in Workers |-> o]

NextQueue ==
    \/ WorkerStep(1)
    \/ EnqueueCall(NotEnqueued, {None}, MaxRows)
    \/ ClockTick(MaxTime)

SpecQueue == InitQueue /\ [][NextQueue]_vars

\* queue q passes the filter of the options o
Passes(q, o) ==
    IF o.queues # {} THEN q \in o.queues
    ELSE IF o.excluded_queues # {} THEN q \notin o.excluded_queues
    ELSE TRUE

\* C21: the rows a worker has taken are rows of tasks whose queue passes
\* its filter, and the QUEUED rows of the other tasks stay as they are; the
\* ScheduleExec rows that exist, and those that change, are rows of
\* schedules whose own queue passes the filter
QueueFilter ==
    /\ [](\A i \in Ids(rows) : rows[i].worker # None =>
             Passes(tasks_registry[rows[i].task_name].queue,
                    opts[rows[i].worker]))
    /\ [](\A k \in 1..Len(schedule_execs) :
             Passes(schedules_registry[schedule_execs[k].name].queue,
                    opts[1]))
    /\ [][/\ \A i \in Ids(rows) :
               (/\ rows[i].state = "QUEUED"
                /\ ~Passes(tasks_registry[rows[i].task_name].queue, opts[1]))
                  => rows'[i] = rows[i]
          /\ \A w \in Workers :
               (cur'[w] # cur[w] /\ cur'[w].id # None) =>
                  Passes(tasks_registry[rows[cur'[w].id].task_name].queue,
                         opts[w])]_vars

\* the worker serves queue a only: it has run the row of task a and waits,
\* the row of task b has been due for two seconds and is QUEUED, and the
\* schedule on queue a has enqueued
QueueFilterWitness ==
    /\ opts[1].queues = {"a"}
    /\ pc[1] = "wait"
    /\ \E i, j \in Ids(rows) :
          /\ rows[i].task_name = "a" /\ rows[i].state = "SUCCEEDED"
          /\ rows[j].task_name = "b" /\ rows[j].state = "QUEUED"
          /\ rows[j].due + 2 <= now
    /\ \E k \in 1..Len(schedule_execs) :
          /\ schedule_execs[k].name = "b"
          /\ schedule_execs[k].last_task # None

---------------------------------------------------------------------------
(* A worker run with --once or with --until_done: tests_tasks.py:81-153 *)

InitModes ==
    /\ InitStore({1})
    /\ tasks_registry = [n \in {"a"} |-> Task("default", 0, FALSE, 0, 0, "ok")]
    /\ \E catch_up \in BOOLEAN :
          schedules_registry =
             [n \in {"a"} |-> Schedule("default", 2, 1, catch_up, TRUE, FALSE)]
    /\ \E once \in BOOLEAN :
          opts = [w \in Workers |->
                     [DefaultOptions EXCEPT !.once = once,
                                            !.until_done = ~once]]

\* one run of the command
RunStep(w) ==
    \/ Start(w)
    \/ TickBegin(w)
    \/ CreateMissingSchedules(w)
    \/ ExecuteSchedules(w)
    \/ WakeUp(w)
    \/ LockTask(w)
    \/ MarkProcessing(w)
    \/ Commit(w)
    \/ RunTask(w)
    \/ TickEnd(w)
    \/ Stop(w)

NextModes ==
    \/ RunStep(1)
    \/ EnqueueCall({"a"}, {None}, MaxRows)
    \/ ClockTick(MaxTime)

SpecModes == InitModes /\ [][NextModes]_vars

\* a step of worker w advances a schedule or ends the execution of a task
Works(w) ==
    \/ /\ pc[w] = "execute_schedules"
       /\ \E k \in 1..Len(schedule_execs) :
             schedule_execs'[k].last_due # schedule_execs[k].last_due
    \/ \E i \in Ids(rows) : /\ rows[i].state = "PROCESSING"
                            /\ rows[i].worker = w
                            /\ rows'[i].state # "PROCESSING"

\* C22: a worker run with --once leaves the loop at the end of its first
\* tick, whatever the tick did, and has started one task at most; a worker
\* run with --until_done starts the next tick at once when the tick has
\* advanced a schedule or run a task, and leaves the loop when it has done
\* neither; both exit with the code STOPPED
OnceAndUntilDone ==
    /\ [][\A w \in Workers :
            /\ did_something'[w] =
                  IF pc[w] = "tick" /\ pc'[w] # "tick" THEN FALSE
                  ELSE did_something[w] \/ Works(w)
            /\ (pc[w] = "end" /\ pc'[w] # "end") =>
                  pc'[w] = IF opts[w].once THEN "stop"
                           ELSE IF did_something[w] THEN "tick" ELSE "stop"
            /\ (pc[w] = "stop" /\ pc'[w] # "stop") =>
                  /\ pc'[w] = "exited"
                  /\ worker_status'[w].exit_code = STOPPED]_vars
    /\ [](\A w \in Workers : opts[w].once =>
             Cardinality({i \in Ids(rows) : rows[i].worker = w}) <= 1)
    /\ [](\A w \in Workers : pc[w] = "exited" =>
             /\ worker_status[w].exit_code = STOPPED
             /\ worker_status[w].last_tick >= worker_status[w].started
             /\ opts[w].until_done => ~did_something[w])

\* the worker run with --once has exited after a tick that ran one of the
\* two rows that were due
OnceAndUntilDoneWitness ==
    /\ opts[1].once
    /\ pc[1] = "exited"
    /\ did_something[1]
    /\ \E i, j \in Ids(rows) :
          /\ rows[i].state = "SUCCEEDED"
          /\ rows[j].state = "QUEUED" /\ rows[j].due <= rows[i].started

---------------------------------------------------------------------------
(* The exception of a callable: tests_tasks.py:34-41 *)

\* C23: when the callable of a row raises an Exception, the row is saved
\* FAILED with the error, no result and the time it finished; the worker
\* that ran it goes to the end of its tick and on to the next one, its
\* status row is not touched, and it never ends CRASHED
FailureRecorded ==
    /\ [][\A w \in Workers :
            (pc[w] = "run" /\ pc'[w] # "run" /\ Raises(cur[w].row)) =>
               /\ rows'[cur[w].id].state = "FAILED"
               /\ rows'[cur[w].id].error # None
               /\ rows'[cur[w].id].result = None
               /\ rows'[cur[w].id].finished = now
               /\ pc'[w] = "end"
               /\ worker_status' = worker_status]_vars
    /\ [](\A w \in Workers :
             /\ pc[w] \notin {"crash", "exited"}
             /\ worker_status[w].exists =>
                   worker_status[w].exit_code = None)
    /\ [](\A i \in Ids(rows) :
             rows[i].state = "FAILED" =>
                /\ rows[i].error # None
                /\ rows[i].result = None
                /\ rows[i].finished # None)

\* the worker has run a row that failed without a retry, has ticked again
\* a second later, and waits
FailureRecordedWitness ==
    /\ pc[1] = "wait"
    /\ \E i \in Ids(rows) :
          /\ rows[i].state = "FAILED"
          /\ rows[i].replaced_by = None
          /\ rows[i].retries = 0
          /\ worker_status[1].last_tick > rows[i].finished

---------------------------------------------------------------------------
(* A schedule is run from the admin: tests_admin.py:79-119 *)

InitForce ==
    /\ InitStore({1})
    /\ \E unique \in BOOLEAN :
          tasks_registry = [n \in {"a"} |->
              Task("default", 0, unique, 0, 0, "ok")]
    /\ \E catch_up \in BOOLEAN, run_on_creation \in BOOLEAN,
          datetime_kwarg \in BOOLEAN :
          schedules_registry = [n \in {"a"} |->
              Schedule("default", 2, 1, catch_up, run_on_creation,
                       datetime_kwarg)]
    /\ opts = [w \in Workers |-> DefaultOptions]

NextForce ==
    \/ WorkerStep(1)
    \/ ForceRun(MaxRows)
    \/ ClockTick(MaxTime)

SpecForce == InitForce /\ [][NextForce]_vars

\* this step is a forced run
Forced == call'.n # call.n

\* the rows that a forced run of the schedule would duplicate
Pending(name, states) ==
    {i \in Ids(rows) : /\ rows[i].task_name = name
                       /\ rows[i].args = schedules_registry[name].args
                       /\ rows[i].kwargs = None
                       /\ rows[i].state \in states}

\* the step adds one row for the task, QUEUED and due now, without a
\* datetime kwarg
AddsOneQueued(name) ==
    /\ Len(rows') = Len(rows) + 1
    /\ SubSeq(rows', 1, Len(rows)) = rows
    /\ rows'[Len(rows')].task_name = name
    /\ rows'[Len(rows')].state = "QUEUED"
    /\ rows'[Len(rows')].due = now
    /\ rows'[Len(rows')].kwargs = None

\* the ticks enqueue for the cron boundaries only: a tick that finds no
\* boundary between last_due and now enqueues nothing, and the rows a tick
\* adds are due at those boundaries, or at the last boundary when last_due
\* is None
TicksFollowCron ==
    \A w \in Workers : SchedStep(w) =>
       \A k \in 1..Len(schedule_execs) :
          \A i \in Ids(rows') \ Ids(rows) :
             rows'[i].task_name = schedule_execs[k].name =>
                IF schedule_execs[k].last_due = None
                THEN rows'[i].due =
                        GetPrev(schedules_registry[schedule_execs[k].name].cron,
                                now)
                ELSE rows'[i].due \in Boundaries(schedule_execs[k])

---------------------------------------------------------------------------
(* The transitions of the state of a TaskExec *)

Transitions ==
    {<<"SLEEPING", "QUEUED">>, <<"QUEUED", "PROCESSING">>,
     <<"PROCESSING", "SUCCEEDED">>, <<"PROCESSING", "FAILED">>,
     <<"PROCESSING", "INTERRUPTED">>, <<"QUEUED", "INVALID">>}

\* C25: the state of a row changes along SLEEPING to QUEUED, QUEUED to
\* PROCESSING, PROCESSING to SUCCEEDED, FAILED or INTERRUPTED and QUEUED to
\* INVALID only, so that a row that is SUCCEEDED, INVALID or FAILED keeps
\* its state
TransitionsOnly ==
    [][\A i \in Ids(rows) :
          /\ i \in Ids(rows')
          /\ rows'[i].state # rows[i].state =>
                <<rows[i].state, rows'[i].state>> \in Transitions]_vars

---------------------------------------------------------------------------
(* A unique task is enqueued while a worker ticks: task.py:47-69 *)

InitStale ==
    /\ InitStore({1})
    /\ tasks_registry = [n \in {"unique"} |->
          Task("default", 0, TRUE, 0, 0, "ok")]
    /\ schedules_registry = <<>>
    /\ opts = [w \in Workers |-> DefaultOptions]

NextStale ==
    \/ WorkerStep(1)
    \/ EnqueueRead({"unique"}, {None, StartTime + 1}, MaxRowsConc)
    \/ EnqueueSave
    \/ ClockTick(MaxTimeEnq)

SpecStale == InitStale /\ [][NextStale]_vars

\* C26: the save of an enqueue of a unique task never puts back to QUEUED a
\* row that a worker has moved to PROCESSING since the enqueue read it, and
\* no row is executed twice
NoStaleSave ==
    /\ [][\A i \in Ids(rows) :
             (call.sleeping_task # NoCur /\ call'.sleeping_task = NoCur
              /\ rows[i].state \notin {"SLEEPING", "QUEUED"})
                => rows'[i].state = rows[i].state]_vars
    /\ [](\A i \in Ids(rows) : Len(procs[i]) <= 1)

---------------------------------------------------------------------------
(* The row locks of the writes that selection depends on:
   worker.py:228-246 *)

InitLocks ==
    /\ InitStore({1, 2})
    /\ tasks_registry = [n \in {"normal"} |->
                            Task("default", 0, FALSE, 0, 0, "ok")]
    /\ \E run_on_creation \in BOOLEAN :
          schedules_registry = [n \in {"normal"} |->
              Schedule("default", 1, 1, FALSE, run_on_creation, FALSE)]
    /\ opts = [w \in Workers |-> DefaultOptions]

NextLocks ==
    \/ \E w \in Workers : ConcurrentStep(w)
    \/ ForceRun(MaxRowsForce)
    \/ ClockTick(MaxTimeConc)

SpecLocks == InitLocks /\ [][NextLocks]_vars

\* worker w is inside the transaction that selected its task
HoldsTask(w) == pc[w] \in {"mark", "commit"}

---------------------------------------------------------------------------
(* Two workers tick on a schedule that catches up; the task of the schedule
   is on a queue that they do not serve: models.py:202-229,
   tests_regression.py:13-23 *)

InitCatchUp ==
    /\ InitStore({1, 2})
    /\ \E unique \in BOOLEAN :
          tasks_registry = [n \in {"normal"} |->
              Task("other", 0, unique, 0, 0, "ok")]
    /\ \E run_on_creation \in BOOLEAN :
          schedules_registry = [n \in {"normal"} |->
              Schedule("default", 1, 1, TRUE, run_on_creation, FALSE)]
    /\ opts = [w \in Workers |->
                  [DefaultOptions EXCEPT !.queues = {"default"}]]

\* the steps of a worker that finds no task of its queues
ScheduleTick(w) ==
    \/ Start(w)
    \/ TickBegin(w)
    \/ ReadSchedules(w)
    \/ InsertSchedules(w)
    \/ SelectSchedules(w)
    \/ ExecuteSelected(w)
    \/ WakeUp(w)
    \/ LockTask(w)
    \/ TickEnd(w)
    \/ Wait(w)

\* the clock stands still until the row of the schedule is created
NextCatchUp ==
    \/ \E w \in Workers : ScheduleTick(w)
    \/ schedule_execs # <<>> /\ ClockTick(MaxTimeCatchUp)

SpecCatchUp == InitCatchUp /\ [][NextCatchUp]_vars

\* the cron boundaries later than the creation of the row
BoundariesAfter ==
    {b \in (StartTime + 1)..MaxTimeCatchUp :
        CronMatch(schedules_registry["normal"].cron, b)}

\* the rows enqueued for the boundary b
EnqueuedFor(rs, b) ==
    {i \in Ids(rs) : rs[i].task_name = "normal" /\ rs[i].due = b}

\* this step is a tick of worker w on the schedule: it holds the row
TickOn(w) ==
    /\ pc[w] = "schedules_selected"
    /\ pc'[w] = "wake"
    /\ command[w].selected # {}

\* C29, as stated: a tick on the schedule leaves one row for each boundary
\* later than the creation of the row and before its now, and none for the
\* boundaries from its now on; there is never more than one row for a
\* boundary
EveryBoundaryOnce ==
    /\ [][\A w \in Workers : TickOn(w) =>
             \A b \in BoundariesAfter :
                Cardinality(EnqueuedFor(rows', b)) =
                   IF b < now THEN 1 ELSE 0]_vars
    /\ [](\A b \in BoundariesAfter : Cardinality(EnqueuedFor(rows, b)) <= 1)

\* what a tick on the row se is to enqueue
DuesOf(se) ==
    IF se.last_due = None
    THEN {GetPrev(schedules_registry[se.name].cron, now)}
    ELSE Boundaries(se)

\* C29, amended: so it is for a task that is not unique and a row that is
\* created with last_due set to its creation; a row that is created with
\* last_due None gets at its first tick the last boundary before the now of
\* that tick only, and from then on each later boundary once; the enqueues
\* of a unique task collapse, and a tick inserts one row at most
EveryBoundaryOnceFromLastDue ==
    /\ [][\A w \in Workers : TickOn(w) =>
             \A k \in command[w].selected :
                LET se == schedule_execs[k]
                IN  IF tasks_registry[se.name].unique
                    THEN Len(rows') <= Len(rows) + 1
                    ELSE /\ \A b \in 1..MaxTimeCatchUp :
                               Cardinality(EnqueuedFor(rows', b)) =
                                  IF b \in DuesOf(se) THEN 1
                                  ELSE Cardinality(EnqueuedFor(rows, b))
                         /\ ~schedules_registry[se.name].run_on_creation =>
                               \A b \in BoundariesAfter :
                                  Cardinality(EnqueuedFor(rows', b)) =
                                     IF b < now THEN 1 ELSE 0]_vars
    /\ [](~tasks_registry["normal"].unique =>
             \A b \in 1..MaxTimeCatchUp :
                Cardinality(EnqueuedFor(rows, b)) <= 1)

\* the workers have ticked on the schedule twice after its creation, the
\* second tick two boundaries after the first, and each boundary has its row
EveryBoundaryOnceFromLastDueWitness ==
    /\ ~tasks_registry["normal"].unique
    /\ ~schedules_registry["normal"].run_on_creation
    /\ now = MaxTimeCatchUp
    /\ Len(rows) = 2
    /\ rows[1].due = StartTime + 1
    /\ rows[2].due = StartTime + 2
    /\ rows[1].created = StartTime + 2
    /\ rows[2].created = MaxTimeCatchUp
    /\ schedule_execs[1].last_due = StartTime + 2
    /\ \A w \in Workers : pc[w] = "wait"

---------------------------------------------------------------------------
(* A worker runs a task while another worker ticks:
   tests_concurrency.py:72-93 *)

\* the steps of worker w, execute() one statement at a time
ExecuteStep(w) ==
    \/ Start(w)
    \/ TickBegin(w)
    \/ CreateMissingSchedules(w)
    \/ ExecuteSchedules(w)
    \/ WakeUp(w)
    \/ LockTask(w)
    \/ MarkProcessing(w)
    \/ Commit(w)
    \/ EnterExecute(w)
    \/ RunCallable(w)
    \/ SaveTask(w)
    \/ ClearTask(w)
    \/ TickEnd(w)
    \/ Wait(w)

NextProcessing ==
    \/ \E w \in Workers : ExecuteStep(w)
    \/ EnqueueCall({"a"}, {None}, MaxRowsConc)
    \/ ClockTick(MaxTimeConc)

SpecProcessing == InitConc /\ [][NextProcessing]_vars

\* worker w has committed its task and has not saved its outcome yet
Running(w) == pc[w] \in {"run", "callable", "finish"}

\* the QUEUED rows that no transaction holds
Candidates ==
    {i \in Ids(rows) : rows[i].state = "QUEUED" /\ i \notin locked}

\* C30: from before the callable starts until its outcome is saved, the row
\* of the task is stored as PROCESSING with its start time and its worker
\* and is not locked; another worker that selects a task meanwhile does not
\* get this row and is not kept from the other rows: it takes a candidate
\* when there is one
ProcessingBeforeCallable ==
    /\ [](\A w \in Workers : Running(w) =>
             /\ rows[cur[w].id].state = "PROCESSING"
             /\ rows[cur[w].id].started # None
             /\ rows[cur[w].id].worker = w
             /\ cur[w].id \notin locked)
    /\ [][\A w, v \in Workers :
             (Running(w) /\ v # w /\ pc[v] = "lock" /\ pc'[v] # "lock") =>
                IF Candidates = {}
                THEN pc'[v] = "end"
                ELSE /\ pc'[v] = "mark"
                     /\ cur'[v].id \in Candidates
                     /\ cur'[v].id # cur[w].id]_vars

\* a worker is inside the callable of its task, which is PROCESSING, and the
\* other worker has selected the next row
ProcessingBeforeCallableWitness ==
    /\ pc[1] = "callable"
    /\ rows[cur[1].id].state = "PROCESSING"
    /\ pc[2] = "mark"
    /\ cur[2].id # cur[1].id

---------------------------------------------------------------------------
(* Rows and their due time: worker.py:233-236, task.py:56-79 *)

\* C31: no step of a worker takes a SLEEPING row whose due is later than now
\* out of SLEEPING, and a row that is QUEUED or PROCESSING is due: its due
\* is not later than now
NotBeforeDue ==
    /\ [][\A w \in Workers : pc'[w] # pc[w] =>
             \A i \in Ids(rows) :
                (rows[i].state = "SLEEPING" /\ rows[i].due > now)
                   => rows'[i].state = "SLEEPING"]_vars
    /\ [](\A i \in Ids(rows) :
             rows[i].state \in {"QUEUED", "PROCESSING"} => rows[i].due <= now)

\* a tick has run a row while a row that is due later sleeps on
NotBeforeDueWitness ==
    /\ pc[1] = "end"
    /\ \E i, j \in Ids(rows) :
          /\ rows[i].state = "SLEEPING"
          /\ rows[i].due > now
          /\ rows[j].state \in {"SUCCEEDED", "FAILED"}
          /\ rows[j].started >= rows[i].created
          /\ rows[j].finished = now

---------------------------------------------------------------------------
(* One tick of a worker with --once over sleeping rows:
   tests_tasks.py:43-50, 132-153 *)

InitWake ==
    /\ InitStore({1})
    /\ \E p \in {1, 2} :
          tasks_registry = [n \in {"a", "b"} |->
              Task("default", IF n = "b" THEN p ELSE 1, FALSE, 0, 0, "ok")]
    /\ schedules_registry = <<>>
    /\ opts = [w \in Workers |-> [DefaultOptions EXCEPT !.once = TRUE]]

NextWake ==
    \/ RunStep(1)
    \/ EnqueueCall(NotEnqueued, {None, StartTime + 1, StartTime + 2}, MaxRows)
    \/ ClockTick(MaxTime)

SpecWake == InitWake /\ [][NextWake]_vars

\* worker w is past the selection of its tick
Selected(w) == pc[w] \in {"end", "stop", "exited"}

\* row i was there, SLEEPING and past its due, when worker w started
SleptPastDue(w, i) ==
    /\ rows[i].due > rows[i].created
    /\ rows[i].created < worker_status[w].started
    /\ rows[i].due <= worker_status[w].started

\* the wake-up step of a tick makes QUEUED every SLEEPING row that is due
WakesDue ==
    \A w \in Workers : (pc[w] = "wake" /\ pc'[w] = "lock") =>
       \A i \in Ids(rows) :
          (rows[i].state = "SLEEPING" /\ rows[i].due <= now)
             => rows'[i].state = "QUEUED"

\* C32, as stated: the wake-up comes before the selection, a tick with
\* --once takes a row that slept past its due to SUCCEEDED when it is the
\* only one, and of the rows woken together the one with the earliest due is
\* executed first
EarliestDueFirst ==
    /\ [][WakesDue]_vars
    /\ [](\A w \in Workers : Selected(w) =>
             \A i \in Ids(rows) : SleptPastDue(w, i) =>
                /\ rows[i].state # "SLEEPING"
                /\ Len(rows) = 1 => rows[i].state = "SUCCEEDED"
                /\ \A j \in Ids(rows) :
                      (/\ SleptPastDue(w, j)
                       /\ rows[i].state = "QUEUED"
                       /\ rows[j].state = "SUCCEEDED")
                          => rows[j].due <= rows[i].due)

\* C32, amended: of the rows woken together the one of the highest priority
\* is executed first, and of those of the same priority the one with the
\* earliest due: no row that the tick leaves QUEUED comes before the row
\* that it has executed
FirstInOrderFirst ==
    /\ [][WakesDue]_vars
    /\ [](\A w \in Workers : Selected(w) =>
             \A i \in Ids(rows) : SleptPastDue(w, i) =>
                /\ rows[i].state # "SLEEPING"
                /\ Len(rows) = 1 => rows[i].state = "SUCCEEDED"
                /\ rows[i].state = "QUEUED" =>
                      \E j \in Ids(rows) :
                         /\ rows[j].state = "SUCCEEDED"
                         /\ ~ComesBefore(rows[i], rows[j])
                         /\ (tasks_registry[rows[i].task_name].priority =
                               tasks_registry[rows[j].task_name].priority
                             => rows[j].due <= rows[i].due))

\* two rows of the same priority slept past their dues, and the one tick of
\* the worker has executed the one that was due first and has left the
\* other QUEUED
FirstInOrderFirstWitness ==
    /\ pc[1] = "exited"
    /\ tasks_registry["b"].priority = 1
    /\ Len(rows) = 2
    /\ SleptPastDue(1, 1)
    /\ SleptPastDue(1, 2)
    /\ rows[1].due > rows[2].due
    /\ rows[1].state = "QUEUED"
    /\ rows[2].state = "SUCCEEDED"

---------------------------------------------------------------------------
(* The rows that one tick takes: worker.py:238-253 *)

\* the rows that this step makes PROCESSING
MadeProcessing ==
    {i \in Ids(rows) : rows[i].state # "PROCESSING"
                       /\ rows'[i].state = "PROCESSING"}

\* the rows whose callable this step runs
Ran ==
    {i \in Ids(rows) : rows[i].state = "PROCESSING"
                       /\ rows'[i].state \in {"SUCCEEDED", "FAILED"}}

\* worker w has selected in this tick
PastSelection(w) == pc[w] \in {"mark", "commit", "run", "end"}

\* C33: a tick selects once: a step makes at most one row PROCESSING, the
\* one that the worker selected, and runs at most one callable, of that
\* row; past its selection the worker does not select again before the tick
\* ends, and the other rows that are QUEUED stay QUEUED through the tick
OnePerTick ==
    [][\A w \in Workers : pc'[w] # pc[w] =>
          /\ Cardinality(MadeProcessing) <= 1
          /\ Cardinality(Ran) <= 1
          /\ MadeProcessing # {} =>
                pc[w] = "commit" /\ MadeProcessing = {cur[w].id}
          /\ Ran # {} => pc[w] = "run" /\ Ran = {cur[w].id}
          /\ PastSelection(w) =>
                /\ pc'[w] \in {"mark", "commit", "run", "end", "tick",
                               "wait", "stop", "crash"}
                /\ pc[w] # "mark" => pc'[w] # "mark"
                /\ pc[w] \notin {"mark", "commit"} => pc'[w] # "commit"
                /\ pc[w] \notin {"commit", "run"} => pc'[w] # "run"
                /\ \A i \in Ids(rows) \ {cur[w].id} :
                      rows[i].state = "QUEUED" => rows'[i].state = "QUEUED"]_vars

\* three rows were due at once, and the first tick has run one of them and
\* has left the two others QUEUED
OnePerTickWitness ==
    /\ pc[1] = "tick"
    /\ Len(rows) = 3
    /\ \E i \in Ids(rows) :
          /\ rows[i].state = "SUCCEEDED"
          /\ \A j \in Ids(rows) \ {i} :
                /\ rows[j].state = "QUEUED"
                /\ rows[j].due <= rows[i].started
                /\ rows[j].created < rows[i].started

---------------------------------------------------------------------------
(* Two workers with different registries: worker.py:194-210. Worker 1 runs
   a version of the application without the task and the schedule "a",
   worker 2 and the callers of enqueue run the version that has them. The
   registry is the one of the process that takes the step. *)

\* the registries of the version that has the definitions
DeployedTasks == [n \in {"a"} |-> Task("default", 0, FALSE, 0, 0, "ok")]
DeployedSchedules ==
    [n \in {"a"} |-> Schedule("default", 2, 1, FALSE, FALSE, FALSE)]

\* the process that steps next has the definitions
Deployed == DOMAIN tasks_registry # {}

\* the next step is of a process of the other version
SwitchProcess ==
    /\ tasks_registry' =
          IF Deployed THEN [n \in {} |-> 0] ELSE DeployedTasks
    /\ schedules_registry' =
          IF Deployed THEN [n \in {} |-> 0] ELSE DeployedSchedules
    /\ UNCHANGED <<now, rows, schedule_execs, locked, pc, opts, command, cur,
                   did_something, last_run, worker_status, ret, call, procs>>

InitDeploy ==
    /\ InitStore({1, 2})
    /\ tasks_registry = DeployedTasks
    /\ schedules_registry = DeployedSchedules
    /\ opts = [w \in Workers |-> [DefaultOptions EXCEPT !.tick_duration = 0]]

\* a step of the worker without the definitions
OldStep == ~Deployed /\ WorkerStep(1)

\* a step of the worker with the definitions
NewStep == Deployed /\ WorkerStep(2)

NextDeploy ==
    \/ OldStep
    \/ NewStep
    \/ SwitchProcess
    \/ Deployed /\ EnqueueCall({"a"}, {None}, MaxRowsConc)
    \/ ClockTick(MaxTimeConc)

\* both workers keep ticking
SpecDeploy ==
    /\ InitDeploy
    /\ [][NextDeploy]_vars
    /\ WF_vars(SwitchProcess)
    /\ SF_vars(OldStep)
    /\ SF_vars(NewStep)

\* the state of row i of the TaskExec table, if there is one
StateOfRow(i) == IF i \in Ids(rows) THEN rows[i].state ELSE "none"

\* the state of the row of the schedule, if there is one
StateOfSchedule ==
    IF schedule_execs # <<>> THEN schedule_execs[1].state ELSE "none"

\* the row i of a task is INVALID for a time only: the worker that has the
\* task gets to process it
TaskInvalidTransient(i) ==
    (StateOfRow(i) = "INVALID") ~>
        (StateOfRow(i) \in {"PROCESSING", "SUCCEEDED", "FAILED"})

\* the row of the schedule is INVALID for a time only: the worker that has
\* the schedule runs it, and it is ACTIVE again
ScheduleInvalidTransient ==
    (StateOfSchedule = "INVALID") ~> (StateOfSchedule = "ACTIVE")

\* C34: what the worker without a definition marks INVALID is invalid for a
\* time only: the worker with the definition processes the row of the task,
\* and runs the schedule, in the end
InvalidTransient ==
    /\ \A i \in 1..MaxRowsConc : TaskInvalidTransient(i)
    /\ ScheduleInvalidTransient

---------------------------------------------------------------------------
\* A worker run with --until_done again and again under one label, with the
\* clock standing still while it runs: every tick follows the last one within
\* the timeout

InitStatus ==
    /\ InitStore({1})
    /\ tasks_registry = [n \in {"a"} |-> Task("default", 0, FALSE, 0, 0, "ok")]
    /\ schedules_registry = [n \in {} |-> 0]
    /\ opts = [w \in Workers |-> [DefaultOptions EXCEPT !.until_done = TRUE]]

\* time passes between two runs only
ClockBetweenRuns ==
    /\ pc[1] = "exited"
    /\ ClockTick(MaxTimeSignal)

NextStatus ==
    \/ UntilDoneStep(1)
    \/ EnqueueCall({"a"}, {None}, MaxRowsConc)
    \/ ClockBetweenRuns

SpecStatus == InitStatus /\ [][NextStatus]_vars

\* worker w has started and has not yet recorded its stop
Started(w) == pc[w] \notin {"absent", "off", "exited"}

\* C35: there is one status row per label, a start under a label that has a
\* row resets started and clears stopped, exit_code and exit_log of that row,
\* and from its start until it records its stop a worker that ticks within
\* its timeout is reported ONLINE
OnlineUntilStop ==
    /\ [][\A w \in Workers : Start(w) =>
            /\ worker_status'[w].exists
            /\ worker_status'[w].started = now
            /\ worker_status'[w].stopped = None
            /\ worker_status'[w].exit_code = None
            /\ worker_status'[w].exit_log = None]_vars
    /\ [](\A w \in Workers : Started(w) =>
            /\ worker_status[w].exists
            /\ WorkerState(worker_status[w], now) = "ONLINE")

---------------------------------------------------------------------------
\* the order of the positions of a worker from the idle wait through one
\* tick to its exit
PcRank(p) ==
    CASE p = "wait" -> 0
      [] p = "tick" -> 1
      [] p = "schedules" -> 2
      [] p = "execute_schedules" -> 3
      [] p = "wake" -> 4
      [] p = "lock" -> 5
      [] p = "mark" -> 6
      [] p = "commit" -> 7
      [] p = "run" -> 8
      [] p = "callable" -> 9
      [] p = "finish" -> 10
      [] p = "clear" -> 11
      [] p = "end" -> 12
      [] p = "stop" -> 13
      [] OTHER -> 14

\* C36: once a first SIGINT is received the worker only moves forward, from
\* the wait through at most one tick to its exit, so that it locks and runs
\* at most one more task; the wait ends at once; the check at the end of the
\* tick is where the worker leaves the loop, and it exits STOPPED
OneMoreTick ==
    /\ [][(command[1].exit_requested /\ pc'[1] # pc[1])
            => PcRank(pc'[1]) > PcRank(pc[1])]_vars
    /\ [][(command[1].exit_requested /\ pc'[1] = "stop")
            => pc[1] \in {"end", "stop"}]_vars
    /\ []((command[1].exit_requested /\ pc[1] = "wait") => ENABLED Wait(1))
    /\ []((command[1].exit_requested /\ pc[1] = "exited") =>
            /\ worker_status[1].exit_code = STOPPED
            /\ WorkerState(worker_status[1], now) = "STOPPED")
    /\ command[1].exit_requested ~> pc[1] = "exited"

\* the SIGINT was received in the wait, before the tick is due, with a row
\* to run at the next tick
OneMoreTickWitness ==
    /\ command[1].exit_requested
    /\ pc[1] = "wait"
    /\ now < last_run[1] + opts[1].tick_duration
    /\ \E i \in Ids(rows) : rows[i].state = "QUEUED"

---------------------------------------------------------------------------
\* row j is the row that replaces row i
ReplacedBy(i, j) == rows[i].replaced_by = j

\* C37: a row that has a replacement is FAILED or INTERRUPTED, or INVALID
\* since; its replacement is a later row of the same task name, args and
\* kwargs, so that the links make no cycle; no row replaces two rows; and the
\* step that links a row to its replacement creates the replacement, SLEEPING
ReplacementLinks ==
    /\ [](\A i \in Ids(rows) : rows[i].replaced_by # None =>
            /\ rows[i].state \in {"FAILED", "INTERRUPTED", "INVALID"}
            /\ rows[i].replaced_by \in Ids(rows)
            /\ rows[i].replaced_by > i
            /\ rows[rows[i].replaced_by].task_name = rows[i].task_name
            /\ rows[rows[i].replaced_by].args = rows[i].args
            /\ rows[rows[i].replaced_by].kwargs = rows[i].kwargs
            /\ \A k \in Ids(rows) : ReplacedBy(k, rows[i].replaced_by) => k = i)
    /\ [][\A i \in Ids(rows') :
            (/\ rows'[i].replaced_by # None
             /\ i \in Ids(rows) => rows[i].replaced_by # rows'[i].replaced_by)
               => /\ rows'[i].replaced_by \notin Ids(rows)
                  /\ rows'[rows'[i].replaced_by].state = "SLEEPING"
                  /\ rows'[i].state \in {"FAILED", "INTERRUPTED"}]_vars

\* a chain of two links: a row that failed, its retry that was interrupted,
\* and the replacement of the retry
ReplacementLinksWitness ==
    \E i, j, k \in Ids(rows) :
       /\ ReplacedBy(i, j)
       /\ ReplacedBy(j, k)
       /\ rows[i].state = "FAILED"
       /\ rows[j].state = "INTERRUPTED"
       /\ rows[k].state = "SLEEPING"

---------------------------------------------------------------------------
\* One worker that ticks without a wait, after the callers have stopped: a
\* row of the task "low" and a row of the task "high", which always fails and
\* is retried; with the same priority it is retried a finite number of times,
\* as the order of two rows of one priority, due and created is not defined

LowPriority == 1

InitStarve ==
    /\ InitStore({1})
    /\ \E priority \in {0, 1, 2}, retries \in {-1, 0, 1} :
          /\ priority = LowPriority => retries >= 0
          /\ tasks_registry =
             [n \in {"low", "high"} |->
                    IF n = "low"
                    THEN Task("default", LowPriority, FALSE, 0, 0, "ok")
                    ELSE Task("default", priority, FALSE, retries, 0, "raise")]
    /\ schedules_registry = <<>>
    /\ opts = [w \in Workers |-> [DefaultOptions EXCEPT !.tick_duration = 0]]

\* the rows that are not finished
Unfinished(rs) == {i \in Ids(rs) : rs[i].state \notin {"SUCCEEDED", "FAILED"}}

\* the id of row i among the rows that are kept
Renumber(rs, i) == Cardinality({j \in Unfinished(rs) : j <= i})

\* the finished rows are deleted from the table, as the admin allows; the
\* rows that are left keep their order
DeleteFinished ==
    /\ Unfinished(rows) # Ids(rows)
    /\ rows' = SelectSeq(rows, LAMBDA r : r.state \notin {"SUCCEEDED", "FAILED"})
    /\ procs' = [k \in 1..Cardinality(Unfinished(rows)) |->
                    procs[CHOOSE i \in Unfinished(rows) : Renumber(rows, i) = k]]
    /\ cur' = [w \in Workers |->
                 IF cur[w].id = None THEN cur[w]
                 ELSE [cur[w] EXCEPT !.id = Renumber(rows, cur[w].id)]]
    /\ locked' = {Renumber(rows, i) : i \in locked}
    /\ UNCHANGED <<now, tasks_registry, schedules_registry, schedule_execs,
                   pc, opts, command, did_something, last_run, worker_status,
                   ret, call>>

\* the callers enqueue each task once, before the worker is started
EnqueueBefore ==
    /\ pc[1] = "off"
    /\ EnqueueCall(NotEnqueued, {None, StartTime + 1}, MaxRowsConc)

NextStarve ==
    \/ WorkerStep(1)
    \/ EnqueueBefore
    \/ DeleteFinished
    \/ ClockTick(MaxTimeConc)

\* the worker keeps ticking, and the table is kept clean
SpecStarve ==
    /\ InitStarve
    /\ [][NextStarve]_vars
    /\ WF_vars(WorkerStep(1))
    /\ WF_vars(DeleteFinished)

\* a row of task name is in one of the states, its due passed
DueIn(name, states) ==
    \E i \in Ids(rows) : /\ rows[i].task_name = name
                         /\ rows[i].state \in states
                         /\ rows[i].due <= now

\* the callers have stopped and the worker runs
CallersStopped == pc[1] \notin {"absent", "off"}

\* C38: once the callers have stopped, a QUEUED or SLEEPING row whose due has
\* passed is made PROCESSING by the worker that keeps ticking, whatever the
\* priority and the retries of the other task
NoStarvation ==
    (CallersStopped /\ DueIn("low", {"QUEUED", "SLEEPING"}))
       ~> DueIn("low", {"PROCESSING"})

\* no task of the same or of a higher priority is retried without limit
FiniteRetriesAhead ==
    \A n \in DOMAIN tasks_registry :
       (n # "low" /\ tasks_registry[n].priority >= LowPriority)
          => tasks_registry[n].retries >= 0

\* C38, amended: the row is made PROCESSING when every task of the same or
\* of a higher priority has finite retries, whatever the retries of the
\* tasks of lower priority
NoStarvationByFiniteRetries ==
    (FiniteRetriesAhead /\ CallersStopped
        /\ DueIn("low", {"QUEUED", "SLEEPING"}))
       ~> DueIn("low", {"PROCESSING"})

\* the row of "low" is PROCESSING after a retry of "high" was run and
\* replaced before it
NoStarvationWitness ==
    /\ FiniteRetriesAhead
    /\ DueIn("low", {"PROCESSING"})
    /\ \E i, j \in Ids(rows) :
          /\ rows[i].task_name = "high"
          /\ rows[i].state = "FAILED"
          /\ rows[i].replaced_by = j
          /\ rows[j].state = "FAILED"
          /\ \E k \in Ids(rows) : rows[k].task_name = "low"
                                  /\ rows[k].created <= rows[i].created

---------------------------------------------------------------------------
\* A worker run with --until_done on a clock that stands still, after the
\* callers have enqueued: tests_tasks.py:297-318

MaxRetriesDone == 2

InitDone ==
    /\ InitStore({1})
    /\ \E retries \in 0..MaxRetriesDone, retry_delay \in {0, 1} :
          tasks_registry =
             [n \in {"div_zero", "normal"} |->
                 IF n = "div_zero"
                 THEN Task("default", 0, FALSE, retries, retry_delay, "raise")
                 ELSE Task("default", 0, FALSE, 0, 0, "ok")]
    /\ \E run_on_creation \in BOOLEAN :
          schedules_registry = [n \in {"normal"} |->
              Schedule("default", 1, 1, FALSE, run_on_creation, FALSE)]
    /\ opts = [w \in Workers |-> [DefaultOptions EXCEPT !.until_done = TRUE]]

\* the callers enqueue the failing task, at most once, before the worker
EnqueueFirst ==
    /\ pc[1] = "off"
    /\ EnqueueCall(NotEnqueued \ {"normal"}, {None, StartTime + 1}, MaxRows)

NextDone ==
    \/ RunStep(1)
    \/ EnqueueFirst

\* the process of the worker is scheduled as long as it runs
SpecDone == InitDone /\ [][NextDone]_vars /\ WF_vars(RunStep(1))

\* C39: the worker run with --until_done exits, STOPPED, after a tick that
\* did nothing; by then no row is QUEUED, every row whose due has come was
\* executed, the failed ones with retries left have a replacement, and the
\* rows that are left SLEEPING are due later
UntilDoneTerminates ==
    /\ <>(pc[1] = "exited")
    /\ [](pc[1] = "exited" =>
            /\ worker_status[1].exit_code = STOPPED
            /\ ~did_something[1]
            /\ \A se \in 1..Len(schedule_execs) :
                  schedule_execs[se].last_due # None
            /\ \A i \in Ids(rows) :
                  /\ rows[i].state \in {"SUCCEEDED", "FAILED", "SLEEPING"}
                  /\ rows[i].state = "SLEEPING" <=> rows[i].due > now
                  /\ (rows[i].state = "FAILED" /\ rows[i].retries # 0) =>
                        rows[i].replaced_by # None)

\* the worker has exited after the row and its two immediate retries failed
UntilDoneTerminatesWitness ==
    /\ pc[1] = "exited"
    /\ \E i, j, k \in Ids(rows) :
          /\ ReplacedBy(i, j)
          /\ ReplacedBy(j, k)
          /\ rows[k].state = "FAILED"
          /\ rows[k].retries = 0
          /\ rows[k].finished = rows[i].created

---------------------------------------------------------------------------
\* C40: of a unique task there is at most one row QUEUED or SLEEPING for one
\* task name, args and kwargs, the replacements of the rows that failed or
\* were interrupted included
AtMostOnePending ==
    \A i, j \in Ids(rows) :
       (/\ i # j
        /\ rows[i].task_name \in DOMAIN tasks_registry
        /\ tasks_registry[rows[i].task_name].unique
        /\ j \in ExistingTasks(rows, rows[i].task_name, rows[i].args,
                               rows[i].kwargs)
        /\ rows[i].state \in {"QUEUED", "SLEEPING"})
          => rows[j].state \notin {"QUEUED", "SLEEPING"}

===========================================================================
